---- MODULE Spec2Model ----
(***************************************************************************)
(* A state-machine model of multilayer_simulator: the Material / Layer /   *)
(* Multilayer object graph (structure.py, material.py), the spectral mixin *)
(* (helpers/mixins.py), the Simulation orchestrator (simulation.py) and   *)
(* the formatters' dispatch (lumerical_classes.py).                        *)
(*                                                                         *)
(* Objects live in heaps indexed by identity: mat[m] is a ConstantIndex,   *)
(* lay[l] a Layer, cells[u] a list of layers held by user code, mls[i] a   *)
(* Multilayer.  A Layer's thickness is the numpy                           *)
(* array np.atleast_1d made of it (a sequence); its _index is a bound      *)
(* method material.index, modelled by the identity of the material it is   *)
(* bound to (index_fn).  Identity 0 stands for None.                       *)
(***************************************************************************)
EXTENDS Integers, Sequences, FiniteSets, TLC

VARIABLES mat, lay, cells, mls, calls, ops, last, own, sim

vars == <<mat, lay, cells, mls, calls, ops, last, own, sim>>

None == 0

NoName == "None"

----------------------------------------------------------------------------
(* Bounds of the model.                                                    *)

\* Largest num_periods tried by from_given_unit_cell.
MaxPeriods == 2

\* Longest unit cell tried by from_given_unit_cell.
MaxCell == 2

\* Number of mutating operations (assignments) in one behaviour.
MaxOps == 2

\* Number of mutating operations in one behaviour of SpecAlias.
MaxAliasOps == 1

\* Number of Layer objects (and of ConstantIndex objects) user code
\* constructs directly in one behaviour.
MaxNew == 2

\* Nested __setattr__ calls the interpreter allows before RecursionError.
MaxDepth == 4

----------------------------------------------------------------------------
(* Program constants.                                                      *)

\* Layer._thickness_default returns 0.
thickness_default == 0

\* validators.ge(0) on Layer.thickness.
thickness_bound == 0

\* ConstantIndex(1): the vacuum index of the default index function and of
\* from_material's default material.
vacuum_index == 1

----------------------------------------------------------------------------
(* Input sets.                                                             *)

ThicknessInputs == {-1, 0, 2}

DeltaInputs == {-3, 1}

IndexInputs == {2}

NewIndexInputs == {5}

----------------------------------------------------------------------------
(* numpy and attrs helpers.                                                *)

\* np.atleast_1d of a scalar: a 1-element array.
atleast_1d(t) == <<t>>

\* attrs validators.ge(bound) applied to a 1-element array: the validator
\* raises unless  value >= bound  is truthy.
ge_strict(bound, value) == \A i \in DOMAIN value : value[i] > bound

ge(bound, value) == \A i \in DOMAIN value : value[i] >= bound

\* ndarray.__iadd__ / __isub__ with a scalar: elementwise, in place.
iadd(arr, d) == [i \in DOMAIN arr |-> arr[i] + d]

RECURSIVE Repeat(_, _)
\* list repetition: the loop "for _ in range(n): for layer in unit_cell".
Repeat(s, n) == IF n <= 0 THEN <<>> ELSE s \o Repeat(s, n - 1)

Range(s) == {s[i] : i \in DOMAIN s}

\* Sequences over S of length 0..n.
SeqsUpTo(S, n) == UNION {[1..k -> S] : k \in 0..n}

----------------------------------------------------------------------------
(* Material and Layer.                                                     *)

\* ConstantIndex(index): name defaults to None.
ConstantIndex(i) == [index |-> i, name |-> NoName]

\* ConstantIndex.index(frequencies): np.full(shape, self._index); every
\* element is the material's current _index, so one element stands for all.
MaterialIndex(m) == mat[m].index

\* Layer.index(frequencies): self._index(frequencies, component), the bound
\* method of the material the layer was given.
LayerIndex(l) == MaterialIndex(lay[l].index_fn)

\* The attrs-generated __init__ of Layer: thickness goes through the
\* converter; the validator runs on the converted value.
LayerInit(index_fn, thickness, material, name) ==
    [index_fn |-> index_fn, thickness |-> atleast_1d(thickness),
     material |-> material, name |-> name]

\* Objects created when the modules are imported.
\*   mat[1]  ConstantIndex(1) behind the default of Layer._index
\*   mat[2]  ConstantIndex(1), the default material of from_material
\*   lay[1], lay[2]  default incident_layer / exit_layer of from_given_unit_cell
\*   lay[3], lay[4]  default incident_layer / exit_layer of from_own_unit_cell
DefaultIndexMaterial == 1

DefaultMaterial == 2

DefaultIncident == 1

DefaultExit == 2

ImportMat == <<ConstantIndex(vacuum_index), ConstantIndex(vacuum_index)>>

ImportLayer == LayerInit(DefaultMaterial, thickness_default, DefaultMaterial, NoName)

ImportLay == <<ImportLayer, ImportLayer, ImportLayer, ImportLayer>>

Layers == DOMAIN lay

Materials == DOMAIN mat

NoOp == [op |-> "init", raised |-> FALSE, target |-> 0, arg |-> 0]

Op(name, raised, target, arg) ==
    [op |-> name, raised |-> raised, target |-> target, arg |-> arg]

\* An operation that returns a value.
OpRet(name, raised, target, arg, ret) ==
    [op |-> name, raised |-> raised, target |-> target, arg |-> arg, ret |-> ret]

----------------------------------------------------------------------------
(* Layer: construction and mutation.                                       *)

\* Layer(thickness=t): _index defaults to ConstantIndex(1).index, material
\* to None.  A negative thickness makes the validator raise ValueError and
\* no object comes into being.
Layer(t) ==
    /\ IF ge(thickness_bound, atleast_1d(t))
         THEN /\ lay' = Append(lay, LayerInit(DefaultIndexMaterial, t, None, NoName))
              /\ last' = Op("Layer", FALSE, Len(lay) + 1, t)
         ELSE /\ lay' = lay
              /\ last' = Op("Layer", TRUE, 0, t)
    /\ UNCHANGED <<mat, cells, mls, calls, ops, own, sim>>

\* ConstantIndex(i).
NewConstantIndex(i) ==
    /\ mat' = Append(mat, ConstantIndex(i))
    /\ last' = Op("ConstantIndex", FALSE, Len(mat) + 1, i)
    /\ UNCHANGED <<lay, cells, mls, calls, ops, own, sim>>

\* The name argument of from_material: None, a callable, or any other
\* value (a string, an integer, ...).  Names are strings; "None" is None.
NameNone == [kind |-> "None", v |-> NoName]

NameValue(n) == [kind |-> "value", v |-> n]

NameCallable(f) == [kind |-> "callable", v |-> f]

\* The callables of the test suite: lambda x: None, lambda x: x,
\* lambda x: str(x) + ' Layer', and two that do not take one argument:
\* lambda x, y: None and lambda: None.
Arity(f) == IF f = "two_args" THEN 2 ELSE IF f = "no_args" THEN 0 ELSE 1

\* f(*args) raises TypeError unless it is given as many arguments as it takes.
CallRaises(f, args) == Len(args) # Arity(f)

Call(f, args) ==
    IF f = "same" THEN args[1]
    ELSE IF f = "suffix" THEN args[1] \o " Layer"
    ELSE NoName

\* "index = material.index": the bound method, identified by the material
\* it is bound to.
material_index_default(m) == DefaultIndexMaterial

material_index(m) == m

\* The arguments from_material calls a callable name with.
NameCallArgs(material_name) == <<material_name>>

\* "if name is None: name = material.name / elif callable(name): name =
\* name(material.name) / else: name = name".
LayerName_uncalled(name, material_name) ==
    IF name.kind = "None" THEN material_name ELSE name.v

LayerName(name, material_name) ==
    IF name.kind = "None" THEN material_name
    ELSE IF name.kind = "callable" THEN Call(name.v, NameCallArgs(material_name))
    ELSE name.v

\* Layer.from_material(material, thickness, name): the index function is
\* material.index; a callable name that cannot be called with one argument
\* raises TypeError, a negative thickness ValueError, and then no layer
\* comes into being.
from_material(m, t, name) ==
    LET call_raises == name.kind = "callable" /\ CallRaises(name.v, NameCallArgs(mat[m].name))
        arg == [thickness |-> t, name |-> name]
    IN  /\ IF ~call_raises /\ ge(thickness_bound, atleast_1d(t))
             THEN /\ lay' = Append(lay, LayerInit(material_index(m), t, m,
                                                  LayerName(name, mat[m].name)))
                  /\ last' = Op("from_material", FALSE, Len(lay) + 1, arg)
             ELSE /\ lay' = lay
                  /\ last' = Op("from_material", TRUE, 0, arg)
        /\ UNCHANGED <<mat, cells, mls, calls, ops, own, sim>>

\* material.name = n.
SetMaterialName(m, n) ==
    /\ ops' = ops + 1
    /\ mat' = [mat EXCEPT ![m].name = n]
    /\ last' = Op("set_material_name", FALSE, m, n)
    /\ UNCHANGED <<lay, cells, mls, calls, own, sim>>

\* layer.name, the attribute the constructor was given.
LayerNameOf_live(l) ==
    IF lay[l].material = None THEN lay[l].name ELSE mat[lay[l].material].name

LayerNameOf(l) == lay[l].name

\* layer.thickness = t: on_setattr = pipe(convert, validate).  The hooks run
\* before the attribute is stored; when the validator raises nothing is
\* stored.
SetThickness(l, t) ==
    /\ ops' = ops + 1
    /\ IF ge(thickness_bound, atleast_1d(t))
         THEN /\ lay' = [lay EXCEPT ![l].thickness = atleast_1d(t)]
              /\ last' = Op("set_thickness", FALSE, l, t)
         ELSE /\ lay' = lay
              /\ last' = Op("set_thickness", TRUE, l, t)
    /\ UNCHANGED <<mat, cells, mls, calls, own, sim>>

\* layer.thickness += d  (d < 0 for -=).  Python evaluates
\*   tmp = layer.thickness; tmp = tmp.__iadd__(d); layer.thickness = tmp
\* and ndarray.__iadd__ updates the stored array in place and returns it.
\* The convert hook (np.atleast_1d of an array) returns the same array, then
\* the validator runs on it: when it raises, the array the layer holds has
\* already been changed.
AugThickness(l, d) ==
    /\ ops' = ops + 1
    /\ lay' = [lay EXCEPT ![l].thickness = iadd(lay[l].thickness, d)]
    /\ last' = Op("aug_thickness", ~ge(thickness_bound, iadd(lay[l].thickness, d)), l, d)
    /\ UNCHANGED <<mat, cells, mls, calls, own, sim>>

\* material._index = v on a ConstantIndex (a plain attrs field).
SetMaterialIndex(m, v) ==
    /\ ops' = ops + 1
    /\ mat' = [mat EXCEPT ![m].index = v]
    /\ last' = Op("set_material_index", FALSE, m, v)
    /\ UNCHANGED <<lay, cells, mls, calls, own, sim>>

----------------------------------------------------------------------------
(* Multilayer.from_given_unit_cell.                                        *)

\* The order in which layers are appended: incident, the unit cell
\* num_periods times, exit.
SourceLayers_extra_period(unit_cell, incident_layer, exit_layer, num_periods) ==
    <<incident_layer>> \o Repeat(unit_cell, num_periods + 1) \o <<exit_layer>>

SourceLayers(unit_cell, incident_layer, exit_layer, num_periods) ==
    <<incident_layer>> \o Repeat(unit_cell, num_periods) \o <<exit_layer>>

\* "if copy_layers:" chooses between the deepcopy loop and the aliasing loop.
ShouldCopy_always(copy_layers) == TRUE

ShouldCopy_never(copy_layers) == FALSE

ShouldCopy(copy_layers) == copy_layers

\* copy.deepcopy(layer) is called once per appended layer, each call with a
\* memo of its own: the p-th append yields a new Layer object.
CopyId_memo(src, p, base) ==
    base + CHOOSE q \in 1..p : src[q] = src[p] /\ \A r \in 1..(q - 1) : src[r] # src[p]

CopyId(src, p, base) == base + p

\* copy.deepcopy of a Layer whose material is None or the object its index
\* function is bound to: the array is copied, the bound method is rebuilt
\* around a deep copy of its __self__ (new material new_mat), and through
\* the memo the copy's material is that same new object.
deepcopy(l, new_mat) ==
    [index_fn |-> new_mat, thickness |-> lay[l].thickness,
     material |-> IF lay[l].material = None THEN None ELSE new_mat,
     name |-> lay[l].name]

\* A list literal of user code, e.g. the fixture [layer_1, layer_2]: a new
\* list object.
NewList(U) ==
    /\ cells' = Append(cells, U)
    /\ last' = Op("list", FALSE, Len(cells) + 1, 0)
    /\ UNCHANGED <<mat, lay, mls, calls, ops, own, sim>>

\* The body of from_given_unit_cell.  u is the list object passed as
\* unit_cell and heap the list heap it lives in; the loops iterate over its
\* elements as they are at the call, and cls(layers, unit_cell=unit_cell)
\* stores the object itself (the field has no converter).  name, self and
\* arg say which entry point was called, on which instance, and with which
\* unit_cell argument.
Build(name, self, arg, u, heap, incident_layer, exit_layer, num_periods, copy_layers) ==
    LET unit_cell == heap[u]
        src == SourceLayers(unit_cell, incident_layer, exit_layer, num_periods)
        n == Len(src)
        layers == IF ShouldCopy(copy_layers)
                    THEN [p \in 1..n |-> CopyId(src, p, Len(lay))]
                    ELSE src
    IN  /\ IF ShouldCopy(copy_layers)
             THEN /\ lay' = lay \o [p \in 1..n |-> deepcopy(src[p], Len(mat) + p)]
                  /\ mat' = mat \o [p \in 1..n |-> mat[lay[src[p]].index_fn]]
             ELSE UNCHANGED <<lay, mat>>
        /\ mls' = Append(mls, [layers |-> layers, unit_cell |-> u])
        /\ calls' = Append(calls, [op |-> name, cell |-> u, self |-> self, arg_cell |-> arg,
                                   unit_cell |-> unit_cell, incident |-> incident_layer,
                                   exit |-> exit_layer, num_periods |-> num_periods,
                                   copy_layers |-> copy_layers])
        /\ last' = Op(name, FALSE, Len(mls) + 1, num_periods)
        /\ UNCHANGED <<ops, own, sim>>

from_given_unit_cell(u, incident_layer, exit_layer, num_periods, copy_layers) ==
    /\ Build("from_given_unit_cell", None, u, u, cells,
             incident_layer, exit_layer, num_periods, copy_layers)
    /\ UNCHANGED cells

\* Multilayer(layers): the attrs-generated __init__; unit_cell defaults to
\* None.  L is the list passed as layers, reached from then on through the
\* instance.
Multilayer(L) ==
    /\ mls' = Append(mls, [layers |-> L, unit_cell |-> None])
    /\ calls' = Append(calls, [op |-> "Multilayer", cell |-> None, self |-> None, arg_cell |-> None,
                               unit_cell |-> <<>>, incident |-> None, exit |-> None,
                               num_periods |-> 0, copy_layers |-> FALSE])
    /\ last' = Op("Multilayer", FALSE, Len(mls) + 1, 0)
    /\ UNCHANGED <<mat, lay, cells, ops, own, sim>>

\* Multilayer.stack_layers: self.layers[1:-1], a new list.
stack_layers_keep_exit(layers) == SubSeq(layers, 2, Len(layers))

stack_layers(layers) == SubSeq(layers, 2, Len(layers) - 1)

\* "if unit_cell is None: unit_cell = self.stack_layers if self.unit_cell is
\* None else self.unit_cell".  arg and recorded are list objects (or None),
\* fresh is the list the slice self.layers[1:-1] creates.
ChooseCell_stack_first(arg, recorded, fresh) ==
    IF arg # None THEN arg ELSE fresh

ChooseCell(arg, recorded, fresh) ==
    IF arg # None THEN arg
    ELSE IF recorded = None THEN fresh ELSE recorded

\* The default incident_layer and exit_layer of from_own_unit_cell.
OwnDefaultIncident == 3

OwnDefaultExit == 4

\* multilayer.from_own_unit_cell(unit_cell, incident_layer, exit_layer,
\* num_periods, copy_layers) on instance self; unit_cell is a list object or
\* None.
from_own_unit_cell(self, unit_cell, incident_layer, exit_layer, num_periods, copy_layers) ==
    LET fresh == Len(cells) + 1
        sliced == Append(cells, stack_layers(mls[self].layers))
        chosen == ChooseCell(unit_cell, mls[self].unit_cell, fresh)
    IN  /\ cells' = IF chosen = fresh THEN sliced ELSE cells
        /\ Build("from_own_unit_cell", self, unit_cell, chosen, sliced,
                 incident_layer, exit_layer, num_periods, copy_layers)

\* Reading multilayer.stack_layers.
ReadStackLayers(i) ==
    /\ last' = OpRet("stack_layers", FALSE, i, 0, stack_layers(mls[i].layers))
    /\ UNCHANGED <<mat, lay, cells, mls, calls, ops, own, sim>>

\* The layers list and a unit cell are plain Python lists: user code can
\* insert, delete and reorder their elements.
\* multilayer.layers.insert(pos, l), pos counted from 0.
LayersInsert(i, pos, l) ==
    /\ ops' = ops + 1
    /\ mls' = [mls EXCEPT ![i].layers =
                  SubSeq(@, 1, pos) \o <<l>> \o SubSeq(@, pos + 1, Len(@))]
    /\ last' = Op("layers_insert", FALSE, i, pos)
    /\ UNCHANGED <<mat, lay, cells, calls, own, sim>>

\* del multilayer.layers[pos], pos counted from 0.
LayersDelete(i, pos) ==
    /\ ops' = ops + 1
    /\ mls' = [mls EXCEPT ![i].layers = SubSeq(@, 1, pos) \o SubSeq(@, pos + 2, Len(@))]
    /\ last' = Op("layers_delete", FALSE, i, pos)
    /\ UNCHANGED <<mat, lay, cells, calls, own, sim>>

\* multilayer.layers.reverse().
LayersReverse(i) ==
    /\ ops' = ops + 1
    /\ mls' = [mls EXCEPT ![i].layers = [p \in DOMAIN @ |-> @[Len(@) + 1 - p]]]
    /\ last' = Op("layers_reverse", FALSE, i, 0)
    /\ UNCHANGED <<mat, lay, cells, calls, own, sim>>

\* unit_cell.append(l) on a list user code holds.
ListAppend(u, l) ==
    /\ ops' = ops + 1
    /\ cells' = [cells EXCEPT ![u] = Append(@, l)]
    /\ last' = Op("list_append", FALSE, u, l)
    /\ UNCHANGED <<mat, lay, mls, calls, own, sim>>

----------------------------------------------------------------------------
(* Multilayer.index and Multilayer.thickness.                              *)
(*                                                                         *)
(* A numpy array is its shape and its elements in row-major order.         *)

RECURSIVE Flatten(_)
Flatten(rows) == IF rows = <<>> THEN <<>> ELSE Head(rows) \o Flatten(Tail(rows))

\* np.array(rows) of a list of 1-d arrays of one length: shape (n, w); of
\* an empty list: shape (0,).
np_array(rows) ==
    [shape |-> IF rows = <<>> THEN <<0>> ELSE <<Len(rows), Len(rows[1])>>,
     flat |-> Flatten(rows)]

\* ndarray.squeeze(): every axis of length 1 is removed.
squeeze(a) ==
    [shape |-> SelectSeq(a.shape, LAMBDA d : d # 1), flat |-> a.flat]

\* ConstantIndex.index(frequencies): np.full(frequencies.shape, self._index)
\* for the 1-d array np.atleast_1d makes of frequencies.
ConstantIndexArray(m, frequencies) == [k \in DOMAIN frequencies |-> mat[m].index]

\* Layer.index(frequencies) as an array.
LayerIndexArray(l, frequencies) == ConstantIndexArray(lay[l].index_fn, frequencies)

\* Multilayer.index(frequencies).
index(layers, frequencies) ==
    np_array([p \in DOMAIN layers |-> LayerIndexArray(layers[p], frequencies)])

\* Multilayer.thickness.
thickness(layers) ==
    squeeze(np_array([p \in DOMAIN layers |-> lay[layers[p]].thickness]))

\* Calling layer.index(frequencies).
ReadLayerIndex(l, frequencies) ==
    /\ last' = OpRet("layer_index", FALSE, l, frequencies, LayerIndexArray(l, frequencies))
    /\ UNCHANGED <<mat, lay, cells, mls, calls, ops, own, sim>>

\* Reading multilayer.index(frequencies) and multilayer.thickness.
ReadIndex(i, frequencies) ==
    /\ last' = OpRet("index", FALSE, i, frequencies, index(mls[i].layers, frequencies))
    /\ UNCHANGED <<mat, lay, cells, mls, calls, ops, own, sim>>

ReadThickness(i) ==
    /\ last' = OpRet("thickness", FALSE, i, 0, thickness(mls[i].layers))
    /\ UNCHANGED <<mat, lay, cells, mls, calls, ops, own, sim>>

----------------------------------------------------------------------------
(* Spectral mixin (helpers/mixins.py).                                     *)
(*                                                                         *)
(* Values that may be None, a scalar or an array are tagged records; v is  *)
(* the sequence of elements (one element for a scalar, none for None).     *)
(* own[o] is the spectral state of instance o: c, frequencies and the      *)
(* entry cached_property keeps in the instance __dict__ under              *)
(* "wavelengths" (Unset when there is none).                               *)

Nothing == [kind |-> "None", v |-> <<>>]

Scalar(x) == [kind |-> "scalar", v |-> <<x>>]

Arr(s) == [kind |-> "array", v |-> s]

Unset == [kind |-> "unset", v |-> <<>>]

\* The module-level speed of light.
c == 299792458

Owners == {"mixin", "simulation"}

\* converters.optional(np.atleast_1d): None stays None, a scalar becomes a
\* 1-element array, an array stays as it is.
optional_atleast_1d(x) == IF x.kind = "None" THEN x ELSE Arr(x.v)

\* c / value, elementwise.  The model's frequencies and wavelengths divide
\* c, so the quotient is exact.
convert_wavelength_and_frequency(value, speed) ==
    [kind |-> value.kind, v |-> [i \in DOMAIN value.v |-> speed \div value.v[i]]]

\* The cached property body: c / None raises TypeError, which yields None.
wavelengths(o) ==
    IF own[o].frequencies.kind = "None" THEN Nothing
    ELSE convert_wavelength_and_frequency(own[o].frequencies, own[o].c)

\* The on_setattr hook of frequencies: "del instance.wavelengths" drops the
\* cached entry; the AttributeError of an absent entry is swallowed.
unset_wavelengths_keep(cache) == cache

unset_wavelengths(cache) == Unset

SpectrumInit(f) ==
    [c |-> c, frequencies |-> optional_atleast_1d(f), cache |-> Unset]

\* instance.frequencies = f: hooks [convert, unset_wavelengths], then store.
SetFrequencies(o, f) ==
    /\ own' = [own EXCEPT ![o].frequencies = optional_atleast_1d(f),
                          ![o].cache = unset_wavelengths(own[o].cache)]
    \* ret: the cached entry the hook removed
    /\ last' = OpRet("set_frequencies", FALSE, o, f, own[o].cache)
    /\ UNCHANGED <<mat, lay, cells, mls, calls, ops, sim>>

\* Reading instance.wavelengths: cached_property returns the entry of the
\* instance __dict__ when there is one, else computes, stores and returns.
ReadWavelengths(o) ==
    LET value == IF own[o].cache.kind = "unset" THEN wavelengths(o) ELSE own[o].cache
    IN  /\ own' = [own EXCEPT ![o].cache = value]
        /\ last' = OpRet("read_wavelengths", FALSE, o, Nothing, value)
        /\ UNCHANGED <<mat, lay, cells, mls, calls, ops, sim>>

\* instance.wavelengths = w: wavelengths is no attrs field and
\* cached_property defines no __set__, so the value lands in the instance
\* __dict__ as it is; no hook runs and frequencies is not touched.
SetWavelengths(o, w) ==
    /\ own' = [own EXCEPT ![o].cache = w]
    /\ last' = OpRet("set_wavelengths", FALSE, o, w, Nothing)
    /\ UNCHANGED <<mat, lay, cells, mls, calls, ops, sim>>

\* instance.c = v: c is an attrs field without converter, validator or
\* on_setattr hook; the value is stored and nothing else happens, the entry
\* cached under "wavelengths" stays.
SetC(o, v) ==
    /\ own' = [own EXCEPT ![o].c = v]
    /\ last' = OpRet("set_c", FALSE, o, v, Nothing)
    /\ UNCHANGED <<mat, lay, cells, mls, calls, ops, sim>>

----------------------------------------------------------------------------
(* Simulation (simulation.py).                                             *)
(*                                                                         *)
(* Structures, engines and formatters are opaque objects named by strings; *)
(* "None" is None.  An engine's raw output records what it was called      *)
(* with, a formatter's output records the formatter and the raw output.    *)

NoData ==
    [kind |-> "None", engine |-> "None", structure |-> "None",
     frequencies |-> Nothing, angles |-> Nothing, formatter |-> "None"]

\* Engine.simulate(structure, frequencies, angles): the raw result.
EngineSimulate(e, s, f, a) ==
    [kind |-> "raw", engine |-> e, structure |-> s,
     frequencies |-> f, angles |-> a, formatter |-> "None"]

\* An engine whose simulate raises.
EngineRaises(e) == e = "engine_raising"

\* formatter.format(data): the structured result.
Format(fm, raw) == [raw EXCEPT !.kind = "formatted", !.formatter = fm]

\* DataFormatter.format raises NotImplementedError.
FormatterRaises(fm) == fm = "DataFormatter"

\* The exception a failing call raises.
ErrorOf(what, who) ==
    [kind |-> "error", engine |-> what, structure |-> who,
     frequencies |-> Nothing, angles |-> Nothing, formatter |-> "None"]

\* "x = self.x if x is None else x" for object arguments ...
Resolve_stored(arg, stored) == IF stored = "None" THEN arg ELSE stored

Resolve(arg, stored) == IF arg = "None" THEN stored ELSE arg

\* ... and for frequencies and angles.
ResolveArray_arg(arg, stored) == arg

ResolveArray(arg, stored) == IF arg.kind = "None" THEN stored ELSE arg

\* "if keep_data is True: self.data = data" is the last statement before the
\* return: it runs only when neither the engine nor the formatter raised.
\* local is the function's local variable data at that point.
StoreData_unguarded(keep_data, completed, old, local) ==
    IF keep_data THEN local ELSE old

StoreData_always(keep_data, completed, old, local) ==
    IF completed THEN local ELSE old

StoreData(keep_data, completed, old, local) ==
    IF completed /\ keep_data = TRUE THEN local ELSE old

\* The attrs-generated __init__ of Simulation: angles goes through
\* np.atleast_1d, data is not an __init__ argument and starts as None.
SimulationInit(structure, engine, angles, formatter) ==
    [structure |-> structure, engine |-> engine, angles |-> Arr(angles.v),
     formatter |-> formatter, data |-> NoData]

\* Simulation.simulate(structure, engine, frequencies, angles, formatter,
\* keep_data).
simulate(structure, engine, frequencies, angles, formatter, keep_data) ==
    LET s == Resolve(structure, sim.structure)
        e == Resolve(engine, sim.engine)
        f == ResolveArray(frequencies, own["simulation"].frequencies)
        a == ResolveArray(angles, sim.angles)
        \* engine.simulate on None raises AttributeError before any call
        no_engine == e = "None"
        engine_calls == IF no_engine THEN <<>>
                        ELSE <<[engine |-> e, structure |-> s, frequencies |-> f, angles |-> a]>>
        engine_failed == no_engine \/ EngineRaises(e)
        raw == EngineSimulate(e, s, f, a)
        fm == Resolve(formatter, sim.formatter)
        format_failed == ~engine_failed /\ fm # "None" /\ FormatterRaises(fm)
        data == IF fm # "None" /\ ~format_failed THEN Format(fm, raw) ELSE raw
        completed == ~engine_failed /\ ~format_failed
        \* the local variable data when control leaves the function
        local == IF engine_failed THEN sim.data ELSE data
        result == IF no_engine THEN ErrorOf("AttributeError", "None")
                  ELSE IF engine_failed THEN ErrorOf("engine", e)
                  ELSE IF format_failed THEN ErrorOf("formatter", fm)
                  ELSE data
        args == [structure |-> structure, engine |-> engine, frequencies |-> frequencies,
                 angles |-> angles, formatter |-> formatter, keep_data |-> keep_data]
    IN  /\ sim' = [sim EXCEPT !.data = StoreData(keep_data, completed, sim.data, local)]
        /\ last' = [op |-> "simulate", raised |-> ~completed, target |-> "simulation",
                    arg |-> args, ret |-> result, engine_calls |-> engine_calls]
        /\ UNCHANGED <<mat, lay, cells, mls, calls, ops, own>>

\* simulation.<field> = value for structure, engine and formatter (plain
\* fields) and for angles (on_setattr = setters.convert).
SetStructure(s) ==
    /\ sim' = [sim EXCEPT !.structure = s]
    /\ last' = OpRet("set_structure", FALSE, "simulation", Nothing, Nothing)
    /\ UNCHANGED <<mat, lay, cells, mls, calls, ops, own>>

SetEngine(e) ==
    /\ sim' = [sim EXCEPT !.engine = e]
    /\ last' = OpRet("set_engine", FALSE, "simulation", Nothing, Nothing)
    /\ UNCHANGED <<mat, lay, cells, mls, calls, ops, own>>

SetFormatter(fm) ==
    /\ sim' = [sim EXCEPT !.formatter = fm]
    /\ last' = OpRet("set_formatter", FALSE, "simulation", Nothing, Nothing)
    /\ UNCHANGED <<mat, lay, cells, mls, calls, ops, own>>

SetAngles(a) ==
    /\ sim' = [sim EXCEPT !.angles = Arr(a.v)]
    /\ last' = OpRet("set_angles", FALSE, "simulation", a, Nothing)
    /\ UNCHANGED <<mat, lay, cells, mls, calls, ops, own>>

\* simulation.data = d in user code: data is a plain field.
SetData(d) ==
    /\ sim' = [sim EXCEPT !.data = d]
    /\ last' = OpRet("set_data", FALSE, "simulation", Nothing, Nothing)
    /\ UNCHANGED <<mat, lay, cells, mls, calls, ops, own>>

----------------------------------------------------------------------------
(* Formatters (helpers/formatters.py, lumerical_classes.py).               *)
(*                                                                         *)
(* A formatter object is its class, its output_format and its              *)
(* lumerical_dataset field; "None" is None.  A raw solver dataset is named *)
(* by a string; values a formatter returns are records of one shape.       *)

\* DataFormatter.OutputFormats.
OutputFormats == {"None", "xarray_dataset", "xarray_dataarray"}

\* The classes with a format method of their own or inherited.
LumericalFormatters == {"LumericalFormatter", "format_stackrt", "format_stackfield"}

\* The attrs-generated __init__: output_format is not validated.
FormatterInit(cls, output_format) ==
    [cls |-> cls, output_format |-> output_format, lumerical_dataset |-> "None"]

\* The raw dataset itself, as a returned value.
RawResult(dataset) == [kind |-> "raw", cls |-> "None", data |-> dataset]

\* A raised exception.
Raised(exception) == [kind |-> "error", cls |-> exception, data |-> "None"]

\* to_xarray_dataset(): LumericalFormatter raises NotImplementedError, the
\* subclasses build an xarray Dataset from self.lumerical_dataset.
to_xarray_dataset(f) ==
    IF f.cls = "LumericalFormatter" THEN Raised("NotImplementedError")
    ELSE [kind |-> "xarray_dataset", cls |-> f.cls, data |-> f.lumerical_dataset]

\* to_xarray_dataarray(): self.to_xarray_dataset().to_array().
to_xarray_dataarray(f) ==
    IF to_xarray_dataset(f).kind = "error" THEN to_xarray_dataset(f)
    ELSE [to_xarray_dataset(f) EXCEPT !.kind = "xarray_dataarray"]

\* attrs.evolve(self, lumerical_dataset=lumerical_dataset, **kwargs): a new
\* formatter; kwargs is <<>> or <<v>> for output_format=v.
evolve(f, dataset, kwargs) ==
    [f EXCEPT !.lumerical_dataset = dataset,
              !.output_format = IF kwargs = <<>> THEN @ ELSE kwargs[1]]

\* The match statement of LumericalFormatter.format.
match_output_format_passthrough(new_formatter) ==
    IF new_formatter.output_format = "xarray_dataset" THEN to_xarray_dataset(new_formatter)
    ELSE IF new_formatter.output_format = "xarray_dataarray"
           THEN to_xarray_dataarray(new_formatter)
    ELSE RawResult(new_formatter.lumerical_dataset)

match_output_format(new_formatter) ==
    IF new_formatter.output_format = "None" THEN RawResult(new_formatter.lumerical_dataset)
    ELSE IF new_formatter.output_format = "xarray_dataset"
           THEN to_xarray_dataset(new_formatter)
    ELSE IF new_formatter.output_format = "xarray_dataarray"
           THEN to_xarray_dataarray(new_formatter)
    ELSE Raised("AttributeError")

\* formatter.format(dataset, **kwargs): DataFormatter.format raises
\* NotImplementedError; LumericalFormatter.format, which the subclasses
\* inherit, evolves a new formatter and dispatches on its output_format.
format(f, dataset, kwargs) ==
    IF f.cls \in LumericalFormatters THEN match_output_format(evolve(f, dataset, kwargs))
    ELSE Raised("NotImplementedError")

\* simulation.formatter.format(dataset, **kwargs): self is not changed.
FormatCall(dataset, kwargs) ==
    LET result == format(sim.formatter, dataset, kwargs)
    IN  /\ last' = OpRet("format", result.kind = "error", "formatter",
                         [dataset |-> dataset, kwargs |-> kwargs], result)
        /\ UNCHANGED <<mat, lay, cells, mls, calls, ops, own, sim>>

\* simulation.formatter.output_format = v (a plain attrs field).
SetOutputFormat(v) ==
    /\ sim' = [sim EXCEPT !.formatter.output_format = v]
    /\ last' = OpRet("set_output_format", FALSE, "formatter", Nothing, Nothing)
    /\ UNCHANGED <<mat, lay, cells, mls, calls, ops, own>>

----------------------------------------------------------------------------
(* Specifications of the structure model.                                  *)

\* Simulation() and SpectrumMixinV0_2() with no arguments.
InitSpectral ==
    /\ own = [o \in Owners |-> SpectrumInit(Nothing)]
    /\ sim = SimulationInit("None", "None", Arr(<<0>>), "None")

InitImport ==
    /\ mat = ImportMat
    /\ lay = ImportLay
    /\ cells = <<>>
    /\ mls = <<>>
    /\ calls = <<>>
    /\ ops = 0
    /\ last = NoOp
    /\ InitSpectral

\* Layer objects user code holds a reference to: the ones it constructed.
UserLayers == {l \in Layers : l > Len(ImportLay)}

UserMaterials == {m \in Materials : m > Len(ImportMat)}

\* Layers and materials: any interleaving of constructions and mutations.
NextLayer ==
    \/ /\ Len(mat) < Len(ImportMat) + MaxNew
       /\ \E i \in IndexInputs : NewConstantIndex(i)
    \/ /\ Len(lay) < Len(ImportLay) + MaxNew
       /\ \E t \in ThicknessInputs : Layer(t)
    \/ /\ Len(lay) < Len(ImportLay) + MaxNew
       /\ \E m \in UserMaterials \cup {DefaultMaterial}, t \in ThicknessInputs :
              from_material(m, t, NameNone)
    \/ /\ ops < MaxOps
       /\ \E l \in UserLayers, t \in ThicknessInputs : SetThickness(l, t)
    \/ /\ ops < MaxOps
       /\ \E l \in UserLayers, d \in DeltaInputs : AugThickness(l, d)
    \/ /\ ops < MaxOps
       /\ \E m \in UserMaterials, v \in NewIndexInputs : SetMaterialIndex(m, v)

SpecLayer == InitImport /\ [][NextLayer]_vars

\* The fixtures of the test suite: material_1 = ConstantIndex(1),
\* material_2 = ConstantIndex(2), vacuum_layer = Layer(),
\* layer_1 = Layer.from_material(material_1, 1),
\* layer_2 = Layer.from_material(material_2, 2).
Material1 == 3

Material2 == 4

VacuumLayer == 5

Layer1 == 6

Layer2 == 7

FixtureObjects ==
    /\ mat = ImportMat \o <<ConstantIndex(1), ConstantIndex(2)>>
    /\ lay = ImportLay \o <<LayerInit(DefaultIndexMaterial, thickness_default, None, NoName),
                            LayerInit(Material1, 1, Material1, NoName),
                            LayerInit(Material2, 2, Material2, NoName)>>

InitFixtures ==
    /\ FixtureObjects
    /\ cells = <<>>
    /\ mls = <<>>
    /\ calls = <<>>
    /\ ops = 0
    /\ last = NoOp
    /\ InitSpectral

IncidentInputs == {DefaultIncident, VacuumLayer, Layer1}

ExitInputs == {DefaultExit, VacuumLayer, Layer1}

\* A unit cell is written down, then one call of from_given_unit_cell is
\* made with every combination of arguments.
NextBuild ==
    \/ /\ cells = <<>>
       /\ \E U \in SeqsUpTo({Layer1, Layer2}, MaxCell) : NewList(U)
    \/ /\ mls = <<>>
       /\ \E u \in DOMAIN cells, i \in IncidentInputs,
             e \in ExitInputs, N \in 0..MaxPeriods, cp \in BOOLEAN :
                 from_given_unit_cell(u, i, e, N, cp)

SpecBuild == InitFixtures /\ [][NextBuild]_vars

\* Unit cells and boundary layers of the aliasing scenarios: a cell of
\* distinct layers, a cell that repeats one object, boundaries that are one
\* object, boundaries omitted (the import-time defaults).
AliasCells == <<<<Layer1, Layer2>>, <<Layer1, Layer1>>>>

AliasBoundaries == {<<DefaultIncident, DefaultExit>>, <<VacuumLayer, VacuumLayer>>}

AliasPeriods == {2}

\* The stacks one scenario builds: a first and a second one.
AliasBuilds == {1, 2}

AliasThickness == {3}

AliasDelta == {-3, 1}

\* The layers these scenarios can lay hands on: all but the default
\* boundaries of from_own_unit_cell (lay[3], lay[4]), which nothing here
\* passes on.
AliasLayers == {l \in Layers : l \notin {3, 4}}

\* Several stacks built from the same objects, interleaved with mutations of
\* any layer or material.
NextAlias ==
    \/ /\ Len(mls) + 1 \in AliasBuilds
       /\ \E u \in DOMAIN cells, b \in AliasBoundaries, N \in AliasPeriods, cp \in BOOLEAN :
              from_given_unit_cell(u, b[1], b[2], N, cp)
    \/ /\ ops < MaxAliasOps
       /\ \E l \in AliasLayers, t \in AliasThickness : SetThickness(l, t)
    \/ /\ ops < MaxAliasOps
       /\ \E l \in AliasLayers, d \in AliasDelta : AugThickness(l, d)
    \/ /\ ops < MaxAliasOps
       /\ \E m \in Materials, v \in NewIndexInputs : SetMaterialIndex(m, v)

InitAlias ==
    /\ FixtureObjects
    /\ cells = AliasCells
    /\ mls = <<>>
    /\ calls = <<>>
    /\ ops = 0
    /\ last = NoOp
    /\ InitSpectral

SpecAlias == InitAlias /\ [][NextAlias]_vars

----------------------------------------------------------------------------
(* Claims about Layer.thickness.                                           *)

\* C1: for every thickness t >= 0, Layer(thickness=t) and layer.thickness = t
\* succeed and leave layer.thickness == [t]; for every t < 0 both fail with
\* the validator's error: no layer is constructed, and the assignment raises
\* instead of storing a clamped value silently.
C1_ThicknessValidated ==
    /\ last.op = "Layer" =>
          IF last.arg >= 0
            THEN ~last.raised /\ last.target \in Layers
                 /\ lay[last.target].thickness = <<last.arg>>
            ELSE last.raised /\ last.target = None
    /\ last.op = "set_thickness" =>
          IF last.arg >= 0
            THEN ~last.raised /\ lay[last.target].thickness = <<last.arg>>
            ELSE last.raised

\* C1 witness: an assignment of a negative thickness was rejected on a layer
\* that an earlier assignment had given thickness 2.
C1_Witness ==
    /\ last.op = "set_thickness" /\ last.arg < 0 /\ last.raised
    /\ lay[last.target].thickness = <<2>>
    /\ ops = 2

\* C2: in every reachable state every existing Layer's stored thickness is
\* >= 0, whatever constructions, assignments and augmented assignments were
\* accepted or rejected before.
C2_ThicknessNonNegative ==
    \A l \in Layers : \A i \in DOMAIN lay[l].thickness : lay[l].thickness[i] >= 0

\* C21: a thickness assignment or augmented assignment that fails
\* validation leaves the layer's thickness as it was before the attempt
\* (and with it what every holder of that layer object sees).
C21_RejectedMutationKeepsThickness ==
    [][ (last'.op \in {"set_thickness", "aug_thickness"} /\ last'.raised) =>
            lay'[last'.target].thickness = lay[last'.target].thickness ]_vars

----------------------------------------------------------------------------
(* Claims about Multilayer.from_given_unit_cell.                           *)

\* Two layers agree in every field value-equality can look at, and in the
\* value their index functions return.
SameValue(a, b) ==
    /\ lay[a].thickness = lay[b].thickness
    /\ lay[a].name = lay[b].name
    /\ LayerIndex(a) = LayerIndex(b)

\* The argument layer that position p (1-based) of the stack built by call a
\* stands for: [incident] + U * N + [exit].
SourceAt(a, p) ==
    IF p = 1 THEN a.incident
    ELSE IF p = Len(a.unit_cell) * a.num_periods + 2 THEN a.exit
    ELSE a.unit_cell[((p - 2) % Len(a.unit_cell)) + 1]

\* C3: from_given_unit_cell returns exactly N*k + 2 layers, in the order
\* [incident] + U repeated N times + [exit], each value-equal to the argument
\* layer it stands for, in both copy modes.
C3_StackShape ==
    last.op = "from_given_unit_cell" =>
        LET M == mls[last.target]
            a == calls[last.target]
            k == Len(a.unit_cell)
            N == a.num_periods
        IN  /\ Len(M.layers) = N * k + 2
            /\ SameValue(M.layers[1], a.incident)
            /\ SameValue(M.layers[Len(M.layers)], a.exit)
            /\ \A j \in 0..(N - 1) : \A i \in 1..k :
                   SameValue(M.layers[1 + j * k + i], a.unit_cell[i])

\* C3 witness: a copying build of two periods of a two-layer cell.
C3_Witness ==
    /\ last.op = "from_given_unit_cell"
    /\ calls[last.target].copy_layers
    /\ calls[last.target].num_periods = 2
    /\ calls[last.target].unit_cell = <<Layer1, Layer2>>
    /\ Len(mls[last.target].layers) = 6

\* What a caller can observe of a layer: its thickness and its index.
Observed(l) == <<lay[l].thickness, LayerIndex(l)>>

ArgLayers(a) == Range(a.unit_cell) \cup {a.incident, a.exit}

\* The materials reachable from a layer: the one behind its index function
\* and its material attribute.
LayerMaterials(l) == {lay[l].index_fn} \cup ({lay[l].material} \ {None})

\* No two positions of the stack hold one object, no stack layer is an
\* argument layer, and no stack layer shares a material with another stack
\* layer or with an argument layer.
Independent(i) ==
    LET L == mls[i].layers
        A == ArgLayers(calls[i])
    IN  /\ \A p, q \in DOMAIN L : p # q =>
               /\ L[p] # L[q]
               /\ LayerMaterials(L[p]) \cap LayerMaterials(L[q]) = {}
        /\ \A p \in DOMAIN L : \A x \in A :
               /\ L[p] # x
               /\ LayerMaterials(L[p]) \cap LayerMaterials(x) = {}

\* One step changes a layer of the stack: nothing else of the stack or of
\* its arguments changes with it; and a step that changes a material of an
\* argument layer changes no stack layer.
FrameStep(i) ==
    LET S == Range(mls[i].layers)
        A == ArgLayers(calls[i])
    IN  /\ \A s \in S : Observed(s)' # Observed(s) =>
               \A l \in (S \cup A) \ {s} : Observed(l)' = Observed(l)
        /\ \A x \in A : (\E m \in LayerMaterials(x) : mat'[m] # mat[m]) =>
               \A s \in S : Observed(s)' = Observed(s)

\* C4: with copy_layers=True no stack layer is the same object as another
\* stack layer or as an argument layer, so a mutation of one stack layer
\* (thickness or material state) changes no other stack layer and no
\* argument layer, and a mutation of an original material changes no stack
\* layer's index.
C4_CopiesIndependent ==
    [][ /\ \A i \in DOMAIN mls' : calls'[i].copy_layers => Independent(i)'
        /\ \A i \in DOMAIN mls : calls[i].copy_layers => FrameStep(i) ]_vars

\* C4 witness: a copying build whose incident and exit are one object and
\* whose cell repeats one object; a stack layer's thickness was then changed.
C4_Witness ==
    \E i \in DOMAIN mls :
        /\ calls[i].copy_layers
        /\ calls[i].incident = calls[i].exit
        /\ calls[i].unit_cell = <<Layer1, Layer1>>
        /\ last.op = "aug_thickness" /\ ~last.raised
        /\ last.target \in Range(mls[i].layers)

\* C5: with copy_layers=False every position of the stack holds the very
\* argument object it stands for, so whatever is observed at one position
\* is observed at every position, of this and of every other aliasing stack,
\* that stands for the same argument.
C5_AliasesShared ==
    \A i \in DOMAIN mls : ~calls[i].copy_layers =>
        /\ \A p \in DOMAIN mls[i].layers : mls[i].layers[p] = SourceAt(calls[i], p)
        /\ \A j \in DOMAIN mls : ~calls[j].copy_layers =>
               \A p \in DOMAIN mls[i].layers : \A q \in DOMAIN mls[j].layers :
                   SourceAt(calls[i], p) = SourceAt(calls[j], q) =>
                       Observed(mls[i].layers[p]) = Observed(mls[j].layers[q])

\* C5 witness: two aliasing stacks built from layer_1; layer_1's thickness
\* was changed afterwards through the first stack.
C5_Witness ==
    /\ Len(mls) = 2
    /\ ~calls[1].copy_layers /\ ~calls[2].copy_layers
    /\ calls[1].num_periods = 2
    /\ last.op = "aug_thickness" /\ ~last.raised
    /\ last.target = mls[1].layers[2]
    /\ lay[mls[2].layers[2]].thickness = <<2>>

\* C11: in both copy modes the Multilayer from_given_unit_cell returns
\* records as unit_cell the very list object that was passed, still holding
\* the original layer objects; with copy_layers=True none of them is a layer
\* of the stack, and a mutation of a layer (or of the material) of the stack
\* leaves the list and every layer in it as they were.
C11_UnitCellIsArgument ==
    [][ /\ \A i \in DOMAIN mls' :
               /\ mls'[i].unit_cell = calls'[i].cell
               /\ cells'[mls'[i].unit_cell] = calls'[i].unit_cell
               /\ calls'[i].copy_layers =>
                      Range(cells'[mls'[i].unit_cell]) \cap Range(mls'[i].layers) = {}
        /\ \A i \in DOMAIN mls : calls[i].copy_layers =>
               \A s \in Range(mls[i].layers) : Observed(s)' # Observed(s) =>
                   /\ cells'[mls[i].unit_cell] = cells[mls[i].unit_cell]
                   /\ \A l \in Range(cells[mls[i].unit_cell]) : Observed(l)' = Observed(l)
      ]_vars

\* C11 witness: a copying build from [layer_1, layer_2]; the thickness of
\* the stack's copy of layer_1 was then changed, layer_1 keeps thickness 1.
C11_Witness ==
    \E i \in DOMAIN mls :
        /\ calls[i].copy_layers
        /\ cells[mls[i].unit_cell] = <<Layer1, Layer2>>
        /\ last.op = "set_thickness" /\ ~last.raised
        /\ last.target = mls[i].layers[2]
        /\ lay[mls[i].layers[2]].thickness = <<3>>
        /\ lay[Layer1].thickness = <<1>>

----------------------------------------------------------------------------
(* Multilayer.from_own_unit_cell and Multilayer.stack_layers.              *)

\* Layer lists handed to Multilayer(layers): the stack of the test
\* ([vacuum_layer] + layers + [vacuum_layer]) and stacks of 2, 1 and 0
\* layers.
OwnStacks == {<<VacuumLayer, Layer1, Layer2, VacuumLayer>>, <<Layer1, Layer2>>,
              <<Layer1>>, <<>>}

\* The stacks one scenario makes: a first one, one derived from it, one
\* derived from either.
OwnBuilds == {1, 2, 3}

OwnPeriods == {1, 2}

\* A stack made directly, then stacks made from a given cell or from a
\* stack's own cell, with a unit cell appended to or a layer's thickness
\* reassigned in between.
NextOwn ==
    \/ /\ mls = <<>>
       /\ \E L \in OwnStacks : Multilayer(L)
    \/ /\ mls = <<>>
       /\ \E u \in DOMAIN cells, N \in OwnPeriods, cp \in BOOLEAN :
              from_given_unit_cell(u, VacuumLayer, VacuumLayer, N, cp)
    \/ /\ mls # <<>> /\ Len(mls) + 1 \in OwnBuilds
       /\ \E self \in DOMAIN mls, u \in {None, 1}, N \in OwnPeriods, cp \in BOOLEAN :
              from_own_unit_cell(self, u, OwnDefaultIncident, OwnDefaultExit, N, cp)
    \/ /\ ops < MaxAliasOps
       /\ \E u \in DOMAIN cells : ListAppend(u, VacuumLayer)
    \/ /\ ops < MaxAliasOps
       /\ \E l \in {Layer1, Layer2}, t \in AliasThickness : SetThickness(l, t)

SpecOwn == InitAlias /\ [][NextOwn]_vars

\* Value equality of two lists of layers, element by element.
SameValues(A, B) ==
    /\ Len(A) = Len(B)
    /\ \A p \in DOMAIN A : SameValue(A[p], B[p])

\* C12: from_own_unit_cell uses the unit_cell argument when one is given,
\* else the instance's recorded unit_cell when that is not None, else the
\* instance's stack_layers (all layers but the first and the last); the
\* result records the chosen list as unit_cell and its stack_layers is
\* value-equal to that list repeated num_periods times.  Called without a
\* unit_cell on a stack with none recorded, the result's unit_cell equals
\* the original's stack_layers, and a further call on the result keeps it.
C12_OwnUnitCell ==
    last.op = "from_own_unit_cell" =>
        LET a == calls[last.target]
            M == mls[last.target]
            S == mls[a.self]
            chosen == cells[M.unit_cell]
            N == a.num_periods
        IN  /\ a.arg_cell # None => M.unit_cell = a.arg_cell
            /\ (a.arg_cell = None /\ S.unit_cell # None) => M.unit_cell = S.unit_cell
            /\ (a.arg_cell = None /\ S.unit_cell = None) =>
                   chosen = [p \in 1..(Len(S.layers) - 2) |-> S.layers[p + 1]]
            /\ Len(M.layers) = N * Len(chosen) + 2
            /\ \A j \in 0..(N - 1) : \A p \in DOMAIN chosen :
                   SameValue(M.layers[1 + j * Len(chosen) + p], chosen[p])

\* C12 witness: the round trip of the test: from_own_unit_cell() on the
\* directly made stack of four layers, then from_own_unit_cell of two
\* periods on the result, which keeps the unit cell [layer_1, layer_2].
C12_Witness ==
    /\ last.op = "from_own_unit_cell" /\ last.target = 3
    /\ calls[1].op = "Multilayer" /\ Len(mls[1].layers) = 4
    /\ calls[2].op = "from_own_unit_cell" /\ calls[2].self = 1 /\ calls[2].arg_cell = None
    /\ calls[3].self = 2 /\ calls[3].arg_cell = None /\ calls[3].num_periods = 2
    /\ mls[3].unit_cell = mls[2].unit_cell
    /\ cells[mls[3].unit_cell] = <<Layer1, Layer2>>
    /\ Len(mls[3].layers) = 6

\* Positions (counted from 0) at which layers are inserted and deleted.
OwnPositions == {0, 1}

\* One stack, made directly or from a given cell; its layers list is read
\* through stack_layers between insertions, deletions and reversals.
NextStackLayers ==
    \/ /\ mls = <<>>
       /\ \E L \in OwnStacks : Multilayer(L)
    \/ /\ mls = <<>>
       /\ \E u \in DOMAIN cells, N \in 0..MaxPeriods, cp \in BOOLEAN :
              from_given_unit_cell(u, VacuumLayer, VacuumLayer, N, cp)
    \/ \E i \in DOMAIN mls : ReadStackLayers(i)
    \/ /\ ops < MaxOps
       /\ \E i \in DOMAIN mls, pos \in OwnPositions :
              pos <= Len(mls[i].layers) /\ LayersInsert(i, pos, VacuumLayer)
    \/ /\ ops < MaxOps
       /\ \E i \in DOMAIN mls, pos \in OwnPositions :
              pos < Len(mls[i].layers) /\ LayersDelete(i, pos)
    \/ /\ ops < MaxOps
       /\ \E i \in DOMAIN mls : LayersReverse(i)

SpecStackLayers == InitAlias /\ [][NextStackLayers]_vars

\* C13: for a Multilayer of at least 2 layers stack_layers is the current
\* layers list without its first and last element, in order, whatever was
\* inserted, deleted or reordered before; for a stack as built by
\* from_given_unit_cell it is value-equal to the unit cell repeated
\* num_periods times.
C13_StackLayers ==
    last.op = "stack_layers" =>
        LET L == mls[last.target].layers
            a == calls[last.target]
        IN  /\ Len(L) >= 2 =>
                   /\ Len(last.ret) = Len(L) - 2
                   /\ \A p \in DOMAIN last.ret : last.ret[p] = L[p + 1]
            /\ (a.op = "from_given_unit_cell" /\ ops = 0) =>
                   /\ Len(last.ret) = a.num_periods * Len(a.unit_cell)
                   /\ \A p \in DOMAIN last.ret :
                          SameValue(last.ret[p],
                                    a.unit_cell[((p - 1) % Len(a.unit_cell)) + 1])

\* C13 witness: stack_layers read from a stack of four layers whose layers
\* list had been reversed.
C13_Witness ==
    /\ last.op = "stack_layers"
    /\ mls[last.target].layers = <<VacuumLayer, Layer2, Layer1, VacuumLayer>>
    /\ last.ret = <<Layer2, Layer1>>
    /\ ops = 1

----------------------------------------------------------------------------
(* Multilayer.index and Multilayer.thickness.                              *)

\* Frequency vectors (np.atleast_1d of the argument).
IndexFrequencies == {<<100>>, <<100, 200>>}

\* One stack of 0 to MaxCell + 1 layers made directly from layer_1 and
\* layer_2; index and thickness are read between changes of the layers'
\* thickness and of their materials' index.
NextStack ==
    \/ /\ mls = <<>>
       /\ \E L \in SeqsUpTo({Layer1, Layer2}, MaxCell + 1) : Multilayer(L)
    \/ \E i \in DOMAIN mls, f \in IndexFrequencies : ReadIndex(i, f)
    \/ \E i \in DOMAIN mls : ReadThickness(i)
    \/ /\ ops < MaxOps
       /\ \E l \in {Layer1, Layer2}, t \in AliasThickness : SetThickness(l, t)
    \/ /\ ops < MaxOps
       /\ \E m \in {Material1, Material2}, v \in NewIndexInputs : SetMaterialIndex(m, v)

SpecStack == InitFixtures /\ [][NextStack]_vars

\* C14: Multilayer.index(frequencies) has one row per layer, in layer
\* order, row i being layers[i].index(frequencies); Multilayer.thickness has
\* one entry per layer, entry i being layers[i].thickness.
C14_IndexAndThicknessRows ==
    /\ last.op = "index" =>
          LET L == mls[last.target].layers
              F == Len(last.arg)
          IN  /\ last.ret.shape[1] = Len(L)
              /\ \A p \in DOMAIN L : \A k \in 1..F :
                     last.ret.flat[(p - 1) * F + k] = LayerIndex(L[p])
    /\ last.op = "thickness" =>
          LET L == mls[last.target].layers
          IN  /\ last.ret.shape = <<Len(L)>>
              /\ \A p \in DOMAIN L : last.ret.flat[p] = lay[L[p]].thickness[1]

\* C15: Multilayer.thickness is a vector with one entry per layer for a
\* stack of any size: 0, 1, 2 or more layers.
C15_ThicknessIsVector ==
    last.op = "thickness" => last.ret.shape = <<Len(mls[last.target].layers)>>

----------------------------------------------------------------------------
(* The defaults of Layer() and Layer.from_material().                      *)

\* Values assigned to a material's _index through layer.material.
DefaultsIndexInputs == {1, 2}

\* Layer() and Layer.from_material() called with no arguments, between
\* reassignments of a layer's thickness and of the _index of the material a
\* layer refers to (layer.material._index = v).
NextDefaults ==
    \/ /\ Len(lay) < Len(ImportLay) + MaxNew
       /\ Layer(thickness_default)
    \/ /\ Len(lay) < Len(ImportLay) + MaxNew
       /\ from_material(DefaultMaterial, thickness_default, NameNone)
    \/ /\ ops < MaxOps
       /\ \E l \in UserLayers, t \in ThicknessInputs : SetThickness(l, t)
    \/ /\ ops < MaxOps
       /\ \E l \in UserLayers, v \in DefaultsIndexInputs :
              lay[l].material # None /\ SetMaterialIndex(lay[l].material, v)

SpecDefaults == InitImport /\ [][NextDefaults]_vars

\* C16: the layer Layer() returns has an index function that returns 1 for
\* every frequency and thickness 0; the layer Layer.from_material() returns
\* has the same index values, thickness and name, so the two are equal.
C16_VacuumDefaults ==
    (last.op \in {"Layer", "from_material"} /\ ~last.raised) =>
        /\ \A f \in IndexFrequencies :
               LayerIndexArray(last.target, f) = [k \in DOMAIN f |-> vacuum_index]
        /\ lay[last.target].thickness = <<thickness_default>>
        /\ lay[last.target].name = NoName

----------------------------------------------------------------------------
(* Layer.from_material: the index function and the name.                   *)

\* Names given to materials and layers: None, "Bob" and the integer 2.
NameInputs == {NoName, "Bob", "2"}

NameArgs ==
    {NameNone} \cup {NameValue(n) : n \in {"Bob", "2"}}
    \cup {NameCallable(f) : f \in {"none", "same", "suffix", "two_args", "no_args"}}

\* The material of the test suite: constant_index_material = ConstantIndex().
NamedMaterial == 3

InitNames ==
    /\ mat = ImportMat \o <<ConstantIndex(vacuum_index)>>
    /\ lay = ImportLay
    /\ cells = <<>>
    /\ mls = <<>>
    /\ calls = <<>>
    /\ ops = 0
    /\ last = NoOp
    /\ InitSpectral

\* Layers made from the material with every kind of name argument; once a
\* layer exists the material's name and index are reassigned and the
\* layers' index is read.
NextNames ==
    \/ /\ Len(lay) < Len(ImportLay) + MaxNew
       /\ \E n \in NameArgs : from_material(NamedMaterial, thickness_default, n)
    \/ /\ ops = 0 /\ UserLayers = {}
       /\ \E n \in NameInputs : SetMaterialName(NamedMaterial, n)
    \/ /\ ops < MaxOps /\ UserLayers # {}
       /\ \E n \in NameInputs : SetMaterialName(NamedMaterial, n)
    \/ /\ ops < MaxOps /\ UserLayers # {}
       /\ \E v \in DefaultsIndexInputs : SetMaterialIndex(NamedMaterial, v)
    \/ \E l \in UserLayers, f \in IndexFrequencies : ReadLayerIndex(l, f)

SpecNames == InitNames /\ [][NextNames]_vars

\* C17: layer.index(f) of a layer made by Layer.from_material(m) returns
\* what m.index(f) returns when it is called, after any changes of m's
\* state, never a value captured at construction.
C17_IndexIsLive ==
    last.op = "layer_index" =>
        last.ret = [k \in DOMAIN last.arg |-> mat[lay[last.target].material].index]

\* C17 witness: the index of the one layer there is was read as 2 after the
\* material, made with index 1, had its index reassigned.
C17_Witness ==
    /\ last.op = "layer_index" /\ last.arg = <<100, 200>> /\ last.ret = <<2, 2>>
    /\ Len(lay) = Len(ImportLay) + 1
    /\ ops >= 1

\* C18: from_material(material, thickness, name) names the layer
\* material.name when name is None, name(material.name) when name is
\* callable (the callable is given exactly one argument, so one that takes
\* none or two raises), and name itself otherwise, whatever its type.
C18_LayerNaming ==
    last.op = "from_material" =>
        LET n == last.arg.name
        IN  /\ last.raised <=> (n.kind = "callable" /\ n.v \in {"two_args", "no_args"})
            /\ ~last.raised =>
                   LET material_name == mat[lay[last.target].material].name
                   IN  lay[last.target].name =
                           CASE n.kind = "None" -> material_name
                             [] n.kind = "value" -> n.v
                             [] n.kind = "callable" /\ n.v = "none" -> NoName
                             [] n.kind = "callable" /\ n.v = "same" -> material_name
                             [] n.kind = "callable" /\ n.v = "suffix" ->
                                    material_name \o " Layer"

\* C18 witness: a layer made from a material named "Bob" with the callable
\* lambda x: str(x) + ' Layer' is named "Bob Layer".
C18_Witness ==
    /\ last.op = "from_material" /\ ~last.raised
    /\ last.arg.name = NameCallable("suffix")
    /\ mat[NamedMaterial].name = "Bob"
    /\ lay[last.target].name = "Bob Layer"

\* C19: a change of a material's name leaves the name of every layer as it
\* was, those made from that material included, while a change of the
\* material's index shows in the index of every layer made from it.
C19_NameIsSnapshot ==
    [][ /\ last'.op = "set_material_name" =>
               \A l \in DOMAIN lay : LayerNameOf(l)' = LayerNameOf(l)
        /\ last'.op = "set_material_index" =>
               \A l \in DOMAIN lay :
                   lay[l].material = last'.target => LayerIndex(l)' = last'.arg
      ]_vars

\* C19 witness: the material of the one layer there is, made with the
\* material's default name, was renamed "Bob"; the layer keeps its name.
C19_Witness ==
    /\ last.op = "set_material_name" /\ last.arg = "Bob"
    /\ Len(lay) = Len(ImportLay) + 1 /\ ops = 1
    /\ lay[Len(lay)].material = last.target
    /\ LayerNameOf(Len(lay)) = NoName
    /\ mat[last.target].name = "Bob"

----------------------------------------------------------------------------
(* Formatter dispatch.                                                     *)

\* Selector values: the three of OutputFormats and two that are not.
SelectorInputs == OutputFormats \cup {"xarray", "netcdf"}

FormatterClasses == LumericalFormatters \cup {"DataFormatter"}

DatasetInputs == {"stackrt_1", "stackrt_2"}

KwargsInputs == {<<>>} \cup {<<v>> : v \in SelectorInputs}

\* Simulation(formatter=cls(output_format=v)).
InitFormat ==
    /\ mat = ImportMat
    /\ lay = ImportLay
    /\ cells = <<>>
    /\ mls = <<>>
    /\ calls = <<>>
    /\ ops = 0
    /\ last = NoOp
    /\ own = [o \in Owners |-> SpectrumInit(Nothing)]
    /\ \E cls \in FormatterClasses, v \in SelectorInputs :
           sim = SimulationInit("None", "None", Arr(<<0>>), FormatterInit(cls, v))

\* format called on the simulation's formatter with and without an
\* output_format override, between reassignments of the formatter and of
\* its output_format.
NextFormat ==
    \/ \E d \in DatasetInputs, kw \in KwargsInputs : FormatCall(d, kw)
    \/ \E v \in SelectorInputs : SetOutputFormat(v)
    \/ \E cls \in FormatterClasses, v \in SelectorInputs : SetFormatter(FormatterInit(cls, v))

SpecFormat == InitFormat /\ [][NextFormat]_vars

\* C20: format() of a LumericalFormatter (or a subclass) dispatches on the
\* output_format in force for the call: None returns the raw dataset as it
\* is, "xarray_dataset" the result of to_xarray_dataset(),
\* "xarray_dataarray" the result of to_xarray_dataarray(), and any other
\* value raises at once instead of returning a result.
C20_FormatDispatch ==
    (last.op = "format" /\ sim.formatter.cls \in LumericalFormatters) =>
        LET f == sim.formatter
            d == last.arg.dataset
            selector == IF last.arg.kwargs = <<>> THEN f.output_format
                        ELSE last.arg.kwargs[1]
            abstract == f.cls = "LumericalFormatter"
        IN  /\ selector = "None" =>
                   ~last.raised /\ last.ret = [kind |-> "raw", cls |-> "None", data |-> d]
            /\ (selector = "xarray_dataset" /\ ~abstract) =>
                   ~last.raised
                   /\ last.ret = [kind |-> "xarray_dataset", cls |-> f.cls, data |-> d]
            /\ (selector = "xarray_dataarray" /\ ~abstract) =>
                   ~last.raised
                   /\ last.ret = [kind |-> "xarray_dataarray", cls |-> f.cls, data |-> d]
            /\ (selector \in {"xarray_dataset", "xarray_dataarray"} /\ abstract) =>
                   last.raised /\ last.ret.cls = "NotImplementedError"
            /\ selector \notin OutputFormats =>
                   last.raised /\ last.ret.cls = "AttributeError"

\* C20 witness: format on a format_stackrt whose output_format is the
\* unrecognised "xarray", with no override, raised AttributeError.
C20_Witness ==
    /\ last.op = "format" /\ last.raised
    /\ sim.formatter = FormatterInit("format_stackrt", "xarray")
    /\ last.arg.kwargs = <<>>
    /\ last.ret = Raised("AttributeError")

----------------------------------------------------------------------------
(* Layer: equality, the material reference and deep copies.                *)

\* The comparison key of Layer._index, declared eq=dis.dis: attrs compares
\* dis.dis(a._index) with dis.dis(b._index), and dis.dis writes the
\* disassembly to stdout and returns None for every argument.
dis_dis(index_fn) == None

\* The name field inherited from NamedMixin takes part in the comparison.
NameEq(a, b) == lay[a].name = lay[b].name

\* The attrs-generated Layer.__eq__: the tuples of the compared fields
\* (_index through its key, thickness, name); material has eq=False.
LayerEq(a, b) ==
    /\ dis_dis(lay[a].index_fn) = dis_dis(lay[b].index_fn)
    /\ lay[a].thickness = lay[b].thickness
    /\ NameEq(a, b)

\* a == b for two Layer objects.
CompareLayers(a, b) ==
    /\ last' = OpRet("layer_eq", FALSE, a, b, LayerEq(a, b))
    /\ UNCHANGED <<mat, lay, cells, mls, calls, ops, own, sim>>

\* layer.material = m: material is a plain attrs field, no hook; the index
\* function the layer was constructed with stays as it is.
SetLayerMaterial(l, m) ==
    /\ ops' = ops + 1
    /\ lay' = [lay EXCEPT ![l].material = m]
    /\ last' = Op("set_layer_material", FALSE, l, m)
    /\ UNCHANGED <<mat, cells, mls, calls, own, sim>>

\* copy.deepcopy(layer) in user code.  The bound method is rebuilt around a
\* deep copy of its __self__; the material field is copied through the same
\* memo, so it is that same new object when the layer's material is the one
\* the index function is bound to, and a further new object otherwise.
copy_deepcopy(l) ==
    LET bound == lay[l].index_fn
        m == lay[l].material
        new_index == Len(mat) + 1
    IN  /\ IF m = None \/ m = bound
             THEN /\ mat' = Append(mat, mat[bound])
                  /\ lay' = Append(lay, deepcopy(l, new_index))
             ELSE /\ mat' = mat \o <<mat[bound], mat[m]>>
                  /\ lay' = Append(lay, [index_fn |-> new_index,
                                         thickness |-> lay[l].thickness,
                                         material |-> new_index + 1,
                                         name |-> lay[l].name])
        /\ last' = Op("deepcopy", FALSE, Len(lay) + 1, l)
        /\ UNCHANGED <<cells, mls, calls, ops, own, sim>>

EqThickness == {1, 2}

EqNames == {NameNone, NameValue("Bob")}

\* Number of existing layers at which a further one is made: the three
\* fixture layers.
EqBuilds == {Len(ImportLay) + 3}

\* The fixture layers and materials; layers are made from the two
\* materials, deep-copied, compared, and their thickness, material and the
\* materials' index are reassigned.
NextMaterial ==
    \/ /\ Len(lay) \in EqBuilds
       /\ \E m \in {Material1, Material2}, t \in EqThickness, n \in EqNames :
              from_material(m, t, n)
    \/ /\ Len(lay) \in EqBuilds
       /\ \E l \in UserLayers : copy_deepcopy(l)
    \/ /\ ops < MaxOps
       /\ \E l \in UserLayers, t \in EqThickness : SetThickness(l, t)
    \/ /\ ops < MaxOps
       /\ \E m \in UserMaterials, v \in NewIndexInputs : SetMaterialIndex(m, v)
    \/ /\ ops < MaxOps
       /\ \E l \in UserLayers, m \in {Material1, Material2} : SetLayerMaterial(l, m)
    \/ \E a, b \in UserLayers : CompareLayers(a, b)

SpecMaterial == InitFixtures /\ [][NextMaterial]_vars

\* C22: two layers compare equal exactly when their thickness, their name
\* and the values of their index functions all agree; layers of equal
\* thickness and name with index 1 and index 2 compare unequal, and the
\* material reference plays no part.
C22_EqualityUsesIndex ==
    last.op = "layer_eq" =>
        (last.ret <=> /\ lay[last.target].thickness = lay[last.arg].thickness
                      /\ lay[last.target].name = lay[last.arg].name
                      /\ LayerIndex(last.target) = LayerIndex(last.arg))

\* C23: the index of every layer that has a material is the index of that
\* material, after any constructions, deep copies, thickness and material
\* state mutations and reassignments of layer.material.
C23_IndexIsOfOwnMaterial ==
    \A l \in Layers :
        lay[l].material # None => LayerIndex(l) = MaterialIndex(lay[l].material)

----------------------------------------------------------------------------
(* from_own_unit_cell with the boundary layers left out.                   *)

\* A stack made directly, then stacks derived from a stack's own cell with
\* incident_layer and exit_layer omitted; in between user code assigns the
\* thickness of a stack's first or last layer (stack.layers[0].thickness = t).
NextOwnDefault ==
    \/ /\ mls = <<>>
       /\ \E L \in OwnStacks : Multilayer(L)
    \/ /\ mls # <<>> /\ Len(mls) + 1 \in OwnBuilds
       /\ \E self \in DOMAIN mls, N \in OwnPeriods, cp \in BOOLEAN :
              from_own_unit_cell(self, None, OwnDefaultIncident, OwnDefaultExit, N, cp)
    \/ /\ ops < MaxAliasOps
       /\ \E i \in DOMAIN mls, t \in AliasThickness :
              /\ mls[i].layers # <<>>
              /\ \E p \in {1, Len(mls[i].layers)} : SetThickness(mls[i].layers[p], t)

SpecOwnDefault == InitAlias /\ [][NextOwnDefault]_vars

\* A vacuum layer: constant index 1, thickness 0.
IsVacuum(l) ==
    /\ LayerIndex(l) = vacuum_index
    /\ lay[l].thickness = atleast_1d(thickness_default)

\* C24: the stack returned by from_own_unit_cell called without
\* incident_layer and exit_layer has vacuum layers (constant index 1,
\* thickness 0) as its first and last layer, whatever the first and last
\* layers of the instance are.
C24_OwnDefaultBoundaries ==
    (/\ last.op = "from_own_unit_cell"
     /\ calls[last.target].incident = OwnDefaultIncident
     /\ calls[last.target].exit = OwnDefaultExit) =>
        LET L == mls[last.target].layers
        IN  IsVacuum(L[1]) /\ IsVacuum(L[Len(L)])

----------------------------------------------------------------------------
(* The default boundary layers of from_given_unit_cell.                    *)

\* Call i was made by from_given_unit_cell without incident_layer and
\* exit_layer: the arguments are the default objects.
BoundariesOmitted(i) ==
    /\ calls[i].op = "from_given_unit_cell"
    /\ calls[i].incident = DefaultIncident
    /\ calls[i].exit = DefaultExit

\* The first and the last layer object of stack i.
BoundaryLayers(i) == {mls[i].layers[1], mls[i].layers[Len(mls[i].layers)]}

\* C25: of two stacks built with the boundaries omitted, two aliasing ones
\* (copy_layers=False) hold one and the same object as first layer and one
\* and the same as last layer, so the thickness seen there is the same in
\* both whenever either is looked at, while a copying one (copy_layers=True)
\* shares neither boundary layer with any other stack.
C25_DefaultBoundariesShared ==
    \A i, j \in DOMAIN mls : (i # j /\ BoundariesOmitted(i) /\ BoundariesOmitted(j)) =>
        LET A == mls[i].layers
            B == mls[j].layers
        IN  /\ (~calls[i].copy_layers /\ ~calls[j].copy_layers) =>
                   /\ A[1] = B[1] /\ A[Len(A)] = B[Len(B)]
                   /\ lay[A[1]].thickness = lay[B[1]].thickness
            /\ calls[i].copy_layers => BoundaryLayers(i) \cap Range(B) = {}

\* C25 witness: the thickness of the first layer of an aliasing stack built
\* with the boundaries omitted was reassigned, a second such stack was
\* built afterwards, and its first layer shows the new thickness.
C25_Witness ==
    /\ Len(mls) = 2
    /\ BoundariesOmitted(1) /\ BoundariesOmitted(2)
    /\ ~calls[1].copy_layers /\ ~calls[2].copy_layers
    /\ ops = 1
    /\ last.op = "from_given_unit_cell" /\ last.target = 2
    /\ lay[mls[1].layers[1]].thickness = <<3>>
    /\ lay[mls[2].layers[1]].thickness = <<3>>

----------------------------------------------------------------------------
(* Specifications of the spectral mixin and of Simulation.                 *)

\* Frequencies and wavelengths that divide c = 2 * 7 * 73 * 293339.
FrequencyInputs == {Nothing, Scalar(1), Scalar(2), Arr(<<1, 2>>), Arr(<<7, 14>>)}

WavelengthInputs == {Scalar(2), Arr(<<7, 14>>)}

InitStructure ==
    /\ mat = ImportMat
    /\ lay = ImportLay
    /\ cells = <<>>
    /\ mls = <<>>
    /\ calls = <<>>
    /\ ops = 0
    /\ last = NoOp

\* SpectrumMixinV0_2(frequencies=f) and Simulation(frequencies=g).
InitSpectrum ==
    /\ InitStructure
    /\ \E f, g \in FrequencyInputs :
           own = [o \in Owners |-> IF o = "mixin" THEN SpectrumInit(f) ELSE SpectrumInit(g)]
    /\ sim = SimulationInit("None", "None", Arr(<<0>>), "None")

\* Reassignments of frequencies interleaved with reads of wavelengths.
NextSpectrum ==
    \/ \E o \in Owners, f \in FrequencyInputs : SetFrequencies(o, f)
    \/ \E o \in Owners : ReadWavelengths(o)

SpecSpectrum == InitSpectrum /\ [][NextSpectrum]_vars

\* The same, with direct assignments of wavelengths.
NextSpectrumW ==
    \/ \E o \in Owners, f \in FrequencyInputs : SetFrequencies(o, f)
    \/ \E o \in Owners : ReadWavelengths(o)
    \/ \E o \in Owners, w \in WavelengthInputs : SetWavelengths(o, w)

SpecSpectrumW == InitSpectrum /\ [][NextSpectrumW]_vars

StoredStructures == {"multilayer_1"}

ArgStructures == {"None", "multilayer_2"}

StoredEngines == {"None", "engine_1", "engine_raising"}

ArgEngines == {"None", "engine_2"}

StoredFormatters == {"None", "formatter_1", "DataFormatter"}

ArgFormatters == {"None", "formatter_2"}

StoredFrequencies == {Nothing, Scalar(1)}

ArgFrequencies == {Nothing, Arr(<<2, 7>>)}

StoredAngles == {Arr(<<0>>)}

ArgAngles == {Nothing, Scalar(45)}

\* Simulation(structure, engine, frequencies=..., angles=..., formatter=...).
InitSim ==
    /\ InitStructure
    /\ \E f \in StoredFrequencies :
           own = [o \in Owners |-> IF o = "mixin" THEN SpectrumInit(Nothing) ELSE SpectrumInit(f)]
    /\ \E s \in StoredStructures, e \in StoredEngines, a \in StoredAngles,
          fm \in StoredFormatters : sim = SimulationInit(s, e, a, fm)

\* Calls of simulate with every combination of overrides, interleaved with
\* reassignments of the instance's attributes.
NextSim ==
    \/ \E s \in ArgStructures, e \in ArgEngines, f \in ArgFrequencies, a \in ArgAngles,
          fm \in ArgFormatters, keep \in BOOLEAN : simulate(s, e, f, a, fm, keep)
    \/ \E s \in StoredStructures : SetStructure(s)
    \/ \E e \in StoredEngines : SetEngine(e)
    \/ \E fm \in StoredFormatters : SetFormatter(fm)
    \/ \E a \in StoredAngles : SetAngles(a)
    \/ \E f \in StoredFrequencies : SetFrequencies("simulation", f)

SpecSim == InitSim /\ [][NextSim]_vars

----------------------------------------------------------------------------
(* Claims about Simulation.simulate.                                       *)

\* The values a call with arguments a uses, read off the instance as it is
\* before the call: the argument when one is given, else the stored value.
UsedStructure(a) == IF a.structure = "None" THEN sim.structure ELSE a.structure

UsedEngine(a) == IF a.engine = "None" THEN sim.engine ELSE a.engine

UsedFrequencies(a) ==
    IF a.frequencies = Nothing THEN own["simulation"].frequencies ELSE a.frequencies

UsedAngles(a) == IF a.angles = Nothing THEN sim.angles ELSE a.angles

UsedFormatter(a) == IF a.formatter = "None" THEN sim.formatter ELSE a.formatter

\* C6: when the engine or the formatter raises during simulate(), that error
\* reaches the caller as it is and data keeps the value it had before the
\* call.
C6_FailureKeepsData ==
    [][ last'.op = "simulate" =>
          LET a == last'.arg
              e == UsedEngine(a)
              fm == UsedFormatter(a)
          IN  /\ (e # "None" /\ EngineRaises(e)) =>
                     /\ last'.raised
                     /\ last'.ret = ErrorOf("engine", e)
                     /\ sim'.data = sim.data
              /\ (e # "None" /\ ~EngineRaises(e) /\ fm # "None" /\ FormatterRaises(fm)) =>
                     /\ last'.raised
                     /\ last'.ret = ErrorOf("formatter", fm)
                     /\ sim'.data = sim.data ]_vars

\* C6 witness: the formatter raised in a retaining call made after an earlier
\* call had stored a result, which data still holds.
C6_Witness ==
    /\ last.op = "simulate" /\ last.raised /\ last.arg.keep_data
    /\ last.ret = ErrorOf("formatter", "DataFormatter")
    /\ sim.data.kind = "formatted"

\* C7: data is None until a retaining call of simulate() completes; a
\* completed retaining call leaves exactly its returned result in data, and
\* every other call (keep_data=False, or one that raised) leaves data as it
\* was.
C7_DataIsLastRetained ==
    /\ sim.data = NoData
    /\ [][ last'.op = "simulate" =>
             IF ~last'.raised /\ last'.arg.keep_data
               THEN sim'.data = last'.ret
               ELSE sim'.data = sim.data ]_vars

\* C7 witness: a call with keep_data=False returned a result while data
\* holds the different result of an earlier retaining call.
C7_Witness ==
    /\ last.op = "simulate" /\ ~last.raised /\ ~last.arg.keep_data
    /\ sim.data.kind = "raw"
    /\ last.ret.kind = "formatted"
    /\ sim.data.engine # last.ret.engine

\* C8: simulate() uses the per-call argument where one is given and the
\* stored value where it is omitted, calls engine.simulate exactly once with
\* those values, and returns formatter.format(raw) when the formatter in use
\* is not None and the raw engine output otherwise.
C8_ResolveAndDispatch ==
    [][ (last'.op = "simulate" /\ UsedEngine(last'.arg) # "None") =>
          LET a == last'.arg
              call == [engine |-> UsedEngine(a), structure |-> UsedStructure(a),
                       frequencies |-> UsedFrequencies(a), angles |-> UsedAngles(a)]
              raw == [kind |-> "raw", engine |-> call.engine, structure |-> call.structure,
                      frequencies |-> call.frequencies, angles |-> call.angles,
                      formatter |-> "None"]
          IN  /\ last'.engine_calls = <<call>>
              /\ ~last'.raised =>
                     last'.ret = IF UsedFormatter(a) # "None"
                                   THEN [raw EXCEPT !.kind = "formatted",
                                                    !.formatter = UsedFormatter(a)]
                                   ELSE raw ]_vars

\* C8 witness: a call that overrode structure and frequencies, fell back on
\* the stored engine, angles and formatter, and returned the formatted data.
C8_Witness ==
    /\ last.op = "simulate" /\ ~last.raised
    /\ last.arg.structure = "multilayer_2" /\ last.arg.frequencies = Arr(<<2, 7>>)
    /\ last.arg.engine = "None" /\ last.arg.angles = Nothing
    /\ last.arg.formatter = "None"
    /\ last.ret.kind = "formatted" /\ last.ret.formatter = "formatter_1"
    /\ last.ret.engine = "engine_1" /\ last.ret.structure = "multilayer_2"

----------------------------------------------------------------------------
(* Claims about the spectral mixin.                                        *)

\* c / frequencies for the frequencies instance o stores now (None for None).
ExpectedWavelengths(o) ==
    IF own[o].frequencies = Nothing THEN Nothing
    ELSE Arr([i \in DOMAIN own[o].frequencies.v |-> own[o].c \div own[o].frequencies.v[i]])

\* C9: under any interleaving of frequencies reassignments and wavelengths
\* reads, a read returns c / frequencies for the frequencies stored at that
\* moment, and no cached value outlives a reassignment of frequencies.
C9_WavelengthsFollowFrequencies ==
    /\ \A o \in Owners :
           own[o].cache.kind # "unset" => own[o].cache = ExpectedWavelengths(o)
    /\ last.op = "read_wavelengths" => last.ret = ExpectedWavelengths(last.target)

\* C9 witness: a reassignment of frequencies removed a cached wavelength that
\* is not c / (the new frequencies).
C9_Witness ==
    /\ last.op = "set_frequencies"
    /\ last.ret.kind = "array"
    /\ last.ret # ExpectedWavelengths(last.target)
    /\ own[last.target].cache = Unset
    /\ own[last.target].frequencies.kind = "array"

\* C10: after wavelengths = w, frequencies == c / w, and a read of
\* wavelengths agrees with the stored frequencies.
C10_WavelengthAssignmentSetsFrequencies ==
    last.op = "set_wavelengths" =>
        LET o == last.target
            w == last.arg
        IN  /\ own[o].frequencies = Arr([i \in DOMAIN w.v |-> own[o].c \div w.v[i]])
            /\ own[o].cache.kind # "unset" => own[o].cache = ExpectedWavelengths(o)

----------------------------------------------------------------------------
(* Simulation: what a call and what a reassignment leave alone.            *)

\* Values of c: the module constant and twice that (both are divided
\* exactly by the model's frequencies).
SpeedInputs == {c, 2 * c}

FrameEngines == {"engine_1", "engine_raising"}

FrameFormatters == {"None", "formatter_1"}

\* The arguments of the calls of simulate: none given, all five given, only
\* structure and frequencies given.
FrameCalls ==
    {[structure |-> "None", engine |-> "None", frequencies |-> Nothing,
      angles |-> Nothing, formatter |-> "None"],
     [structure |-> "multilayer_2", engine |-> "engine_2", frequencies |-> Arr(<<2, 7>>),
      angles |-> Scalar(45), formatter |-> "formatter_2"],
     [structure |-> "multilayer_2", engine |-> "None", frequencies |-> Arr(<<2, 7>>),
      angles |-> Nothing, formatter |-> "None"]}

\* Simulation(structure, engine, frequencies=1, formatter=formatter).
InitFrame ==
    /\ InitStructure
    /\ own = [o \in Owners |-> IF o = "mixin" THEN SpectrumInit(Nothing)
                                ELSE SpectrumInit(Scalar(1))]
    /\ \E e \in FrameEngines :
           sim = SimulationInit("multilayer_1", e, Arr(<<0>>), "formatter_1")

\* Calls of simulate with and without overrides, interleaved with
\* reassignments of every attribute of the instance, data included, and
\* with reads of wavelengths.
NextFrame ==
    \/ \E a \in FrameCalls, keep \in BOOLEAN :
           simulate(a.structure, a.engine, a.frequencies, a.angles, a.formatter, keep)
    \/ \E s \in StoredStructures : SetStructure(s)
    \/ \E e \in FrameEngines : SetEngine(e)
    \/ \E fm \in FrameFormatters : SetFormatter(fm)
    \/ \E a \in StoredAngles : SetAngles(a)
    \/ \E f \in StoredFrequencies : SetFrequencies("simulation", f)
    \/ \E v \in SpeedInputs : SetC("simulation", v)
    \/ SetData(NoData)
    \/ ReadWavelengths("simulation")

SpecFrame == InitFrame /\ [][NextFrame]_vars

\* C26: data changes only in a completed retaining call of simulate() or
\* in an assignment by the caller; a reassignment of structure, engine,
\* frequencies, angles, formatter or c leaves data as it was.
C26_DataFrame ==
    [][ /\ sim'.data # sim.data =>
               \/ last'.op = "simulate" /\ ~last'.raised /\ last'.arg.keep_data
               \/ last'.op = "set_data"
        /\ last'.op \in {"set_structure", "set_engine", "set_frequencies", "set_angles",
                          "set_formatter", "set_c"} => sim'.data = sim.data ]_vars

\* C26 witness: c was reassigned on a simulation that holds the result of
\* an earlier run.
C26_Witness ==
    /\ last.op = "set_c" /\ last.arg = 2 * c
    /\ sim.data.kind = "formatted"

\* C27: a call of simulate(), completed or raising, leaves the stored
\* structure, engine, angles, formatter, frequencies, c and the cached
\* wavelengths as they were, and a call without arguments hands the
\* stored values to the engine.
C27_OverridesAreLocal ==
    [][ last'.op = "simulate" =>
          /\ own' = own
          /\ sim'.structure = sim.structure /\ sim'.engine = sim.engine
          /\ sim'.angles = sim.angles /\ sim'.formatter = sim.formatter
          /\ (/\ last'.arg.structure = "None" /\ last'.arg.engine = "None"
              /\ last'.arg.frequencies = Nothing /\ last'.arg.angles = Nothing
              /\ last'.arg.formatter = "None") =>
                 /\ last'.engine_calls =
                        <<[engine |-> sim.engine, structure |-> sim.structure,
                           frequencies |-> own["simulation"].frequencies,
                           angles |-> sim.angles]>>
                 /\ ~last'.raised => last'.ret.formatter = sim.formatter ]_vars

\* C27 witness: a call without arguments, made after a call that overrode
\* structure, engine, frequencies and angles had stored its result, ran the
\* stored engine on the stored structure.
C27_Witness ==
    /\ last.op = "simulate" /\ ~last.raised /\ ~last.arg.keep_data
    /\ last.arg.structure = "None" /\ last.arg.engine = "None"
    /\ last.arg.frequencies = Nothing /\ last.arg.angles = Nothing
    /\ last.arg.formatter = "None"
    /\ last.ret.engine = "engine_1" /\ last.ret.structure = "multilayer_1"
    /\ sim.data.engine = "engine_2" /\ sim.data.structure = "multilayer_2"
    /\ sim.data.frequencies = Arr(<<2, 7>>)
    /\ own["simulation"].cache # Unset

----------------------------------------------------------------------------
(* The spectral mixin with c reassigned.                                   *)

\* Reassignments of frequencies and of c interleaved with reads of
\* wavelengths.
NextSpeed ==
    \/ \E o \in Owners, f \in FrequencyInputs : SetFrequencies(o, f)
    \/ \E o \in Owners : ReadWavelengths(o)
    \/ \E o \in Owners, v \in SpeedInputs : SetC(o, v)

SpecSpeed == InitSpectrum /\ [][NextSpeed]_vars

\* C28: a read of wavelengths returns (the c stored now) / (the frequencies
\* stored now), after any reads and reassignments of frequencies and of c;
\* it returns None exactly when frequencies is None.
C28_WavelengthsFollowSpeed ==
    last.op = "read_wavelengths" =>
        /\ last.ret = ExpectedWavelengths(last.target)
        /\ last.ret = Nothing <=> own[last.target].frequencies = Nothing

----------------------------------------------------------------------------
(* SpectrumMixinV0_1, the draft with hooks on both fields.                 *)
(*                                                                         *)
(* own["draft"] is the instance: c, frequencies, wavelengths, and the      *)
(* stack of the __setattr__ calls in progress.  A frame holds the field    *)
(* being assigned, the value as the hooks have left it so far, and the     *)
(* position k of the next hook in the field's on_setattr list; attrs       *)
(* stores the value once every hook has returned.                          *)

\* The on_setattr lists of the two fields.
on_setattr_one_way(field) ==
    IF field = "frequencies" THEN <<"convert", "set_wavelengths">>
    ELSE <<"convert">>

on_setattr(field) ==
    IF field = "frequencies" THEN <<"convert", "set_wavelengths">>
    ELSE <<"convert", "set_frequencies">>

\* The field a hook assigns: set_wavelengths assigns instance.wavelengths,
\* set_frequencies assigns instance.frequencies.
HookTarget(hook) == IF hook = "set_wavelengths" THEN "wavelengths" ELSE "frequencies"

\* SpectrumMixinV0_1(frequencies=f, wavelengths=w): __init__ runs the
\* converters and no on_setattr hook.
DraftInit(f, w) ==
    [c |-> c, frequencies |-> optional_atleast_1d(f), wavelengths |-> optional_atleast_1d(w),
     frames |-> <<>>, status |-> "idle"]

\* instance.<field> = value in user code: __setattr__ is entered.
DraftAssign(field, value) ==
    /\ own["draft"].frames = <<>>
    /\ own' = [own EXCEPT !["draft"].frames = <<[field |-> field, value |-> value, k |-> 1]>>,
                          !["draft"].status = "running"]
    /\ last' = Op("assign", FALSE, field, value)
    /\ UNCHANGED <<mat, lay, cells, mls, calls, ops, sim>>

\* One step of the innermost __setattr__ in progress.
\*   every hook has returned: the value is stored, the call returns, and
\*     the hook of the calling frame that made the assignment returns;
\*   convert: the value goes through converters.optional(np.atleast_1d);
\*   set_wavelengths / set_frequencies: c / value is computed (TypeError for
\*     None, which no frame catches) and assigned to the other field, a
\*     nested __setattr__; at the interpreter's recursion limit that call
\*     raises RecursionError, which no frame catches either.
DraftStep ==
    LET d == own["draft"]
        n == Len(d.frames)
        top == d.frames[n]
        hooks == on_setattr(top.field)
        raise(error) == [d EXCEPT !.frames = <<>>, !.status = error]
    IN  /\ d.frames # <<>>
        /\ own' = [own EXCEPT !["draft"] =
              IF top.k > Len(hooks)
                THEN [d EXCEPT ![top.field] = top.value,
                               !.frames = IF n = 1 THEN <<>>
                                          ELSE [SubSeq(d.frames, 1, n - 1)
                                                   EXCEPT ![n - 1].k = @ + 1],
                               !.status = IF n = 1 THEN "returned" ELSE "running"]
              ELSE IF hooks[top.k] = "convert"
                THEN [d EXCEPT !.frames[n].value = optional_atleast_1d(top.value),
                               !.frames[n].k = top.k + 1]
              ELSE IF top.value.kind = "None" THEN raise("TypeError")
              ELSE IF n >= MaxDepth THEN raise("RecursionError")
              ELSE [d EXCEPT !.frames = Append(d.frames,
                        [field |-> HookTarget(hooks[top.k]),
                         value |-> convert_wavelength_and_frequency(top.value, d.c),
                         k |-> 1])]]
        /\ last' = [last EXCEPT !.raised = own'["draft"].status \in {"TypeError", "RecursionError"}]
        /\ UNCHANGED <<mat, lay, cells, mls, calls, ops, sim>>

DraftFields == {"frequencies", "wavelengths"}

\* SpectrumMixinV0_1(), SpectrumMixinV0_1(frequencies=1) and
\* SpectrumMixinV0_1(wavelengths=2).
InitDraft ==
    /\ InitStructure
    /\ \E a \in {<<Nothing, Nothing>>, <<Scalar(1), Nothing>>, <<Nothing, Scalar(2)>>} :
           own = [o \in {"draft"} |-> DraftInit(a[1], a[2])]
    /\ sim = SimulationInit("None", "None", Arr(<<0>>), "None")

\* Assignments of either field, each followed through hook by hook.
NextDraft ==
    \/ \E field \in DraftFields, value \in FrequencyInputs : DraftAssign(field, value)
    \/ DraftStep

SpecDraft == InitDraft /\ [][NextDraft]_vars

\* C29: an assignment of frequencies or wavelengths on a SpectrumMixinV0_1
\* instance never returns: each hook assigns the other field, whose hook
\* assigns the first again, so no call of __setattr__ gets as far as storing
\* its value, and the two fields stay as the constructor left them.
C29_DraftAssignmentNeverReturns ==
    /\ own["draft"].status # "returned"
    /\ [][ /\ own'["draft"].frequencies = own["draft"].frequencies
           /\ own'["draft"].wavelengths = own["draft"].wavelengths
           /\ Len(own'["draft"].frames) < Len(own["draft"].frames) =>
                  own'["draft"].frames = <<>> /\ last'.raised ]_vars

\* C29 witness: the assignment frequencies = 2 went from hook to hook, the
\* values alternating between [2] and [c / 2], until the recursion limit
\* ended it with an error; frequencies is still what the constructor stored.
C29_Witness ==
    /\ last.op = "assign" /\ last.target = "frequencies" /\ last.arg = Scalar(2)
    /\ last.raised
    /\ own["draft"].status = "RecursionError"
    /\ own["draft"].frequencies = Arr(<<1>>)
    /\ own["draft"].wavelengths = Nothing

----------------------------------------------------------------------------
(* format_stackrt: the dataset it builds.                                  *)
(*                                                                         *)
(* A solver output is a dict: a function from its keys to values (one      *)
(* integer stands for the array under a key).  An xarray Dataset is its    *)
(* coordinate names and its data variables, a function from names to       *)
(* values.  Dataset methods return new Dataset objects.                    *)

\* The field defaults of format_stackrt.
stackrt_dims == {"frequency", "theta"}

stackrt_non_dims == {"lambda"}

stackrt_variables == {"rs", "rp", "ts", "tp", "Rs", "Rp", "Ts", "Tp"}

\* relabeling = {"lambda": "wavelength"}.
stackrt_relabeling(name) == IF name = "lambda" THEN "wavelength" ELSE name

\* format_stackrt(output_format=v, add_absorption=b).
StackrtInit(output_format, add_absorption) ==
    [cls |-> "format_stackrt", output_format |-> output_format,
     lumerical_dataset |-> "None", add_absorption |-> add_absorption]

\* A raised exception, as the result of a call.
DatasetError(exception) == [kind |-> "error", cls |-> exception]

\* LumericalFormatter.lumerical_to_xarray: every dim, non-dim coordinate
\* and variable is looked up in the solver output (KeyError when absent).
lumerical_to_xarray(lumerical_dataset, dims, non_dims, variables) ==
    IF ~((dims \cup non_dims \cup variables) \subseteq DOMAIN lumerical_dataset)
      THEN DatasetError("KeyError")
      ELSE [kind |-> "Dataset", coords |-> dims \cup non_dims,
            data_vars |-> [var \in variables |-> lumerical_dataset[var]]]

\* Dataset.rename(name_dict): a new Dataset with the names replaced.
Dataset_rename(dataset) ==
    [dataset EXCEPT !.coords = {stackrt_relabeling(name) : name \in dataset.coords}]

\* Dataset.assign(variables={name: f}): a new Dataset holding the old
\* variables and name; the Dataset it is called on is not changed.
Dataset_assign(dataset, name, value) ==
    [dataset EXCEPT !.data_vars = (name :> value) @@ dataset.data_vars]

\* add_absorption_to_xarray_dataset(dataset, r, t, a): returns
\* dataset.assign({a: 1 - dataset[r] - dataset[t]}).
add_absorption_to_xarray_dataset(dataset, reflectance_key, transmittance_key, absorptance_key) ==
    Dataset_assign(dataset, absorptance_key,
                   1 - dataset.data_vars[reflectance_key] - dataset.data_vars[transmittance_key])

\* format_stackrt.to_xarray_dataset(): the two calls of
\* add_absorption_to_xarray_dataset are expression statements, the Datasets
\* they return are bound to no name; the method returns the local dataset.
\* dropped holds the values of the expression statements.
stackrt_to_xarray_dataset(f) ==
    LET made == lumerical_to_xarray(f.lumerical_dataset, stackrt_dims, stackrt_non_dims,
                                    stackrt_variables)
        dataset == Dataset_rename(made)
    IN  IF made.kind = "error" THEN [ret |-> made, dropped |-> <<>>]
        ELSE [ret |-> dataset,
              dropped |-> IF f.add_absorption
                            THEN <<add_absorption_to_xarray_dataset(dataset, "Rs", "Ts", "As"),
                                   add_absorption_to_xarray_dataset(dataset, "Rp", "Tp", "Ap")>>
                            ELSE <<>>]

\* Dataset.to_array(): the data variables stacked in one DataArray.
Dataset_to_array(dataset) == [dataset EXCEPT !.kind = "DataArray"]

\* format_stackrt().format(lumerical_dataset, **kwargs), inherited from
\* LumericalFormatter.
stackrt_format(f, lumerical_dataset, kwargs) ==
    LET new_formatter == evolve(f, lumerical_dataset, kwargs)
        built == stackrt_to_xarray_dataset(new_formatter)
    IN  IF new_formatter.output_format = "None"
          THEN [ret |-> [kind |-> "raw", data |-> lumerical_dataset], dropped |-> <<>>]
        ELSE IF new_formatter.output_format = "xarray_dataset" THEN built
        ELSE IF new_formatter.output_format = "xarray_dataarray"
          THEN IF built.ret.kind = "error" THEN built
               ELSE [built EXCEPT !.ret = Dataset_to_array(built.ret)]
        ELSE [ret |-> DatasetError("AttributeError"), dropped |-> <<>>]

\* simulation.formatter.format(lumerical_dataset, **kwargs).
StackrtFormatCall(lumerical_dataset, kwargs) ==
    LET result == stackrt_format(sim.formatter, lumerical_dataset, kwargs)
    IN  /\ last' = [op |-> "stackrt_format", raised |-> result.ret.kind = "error",
                    target |-> "formatter",
                    arg |-> [dataset |-> lumerical_dataset, kwargs |-> kwargs],
                    ret |-> result.ret, dropped |-> result.dropped]
        /\ UNCHANGED <<mat, lay, cells, mls, calls, ops, own, sim>>

\* A stackrt solver output with the given reflectances and transmittances.
SolverOutput(Rs, Ts, Rp, Tp) ==
    [k \in stackrt_dims \cup stackrt_non_dims \cup stackrt_variables |->
        CASE k = "Rs" -> Rs [] k = "Ts" -> Ts [] k = "Rp" -> Rp [] k = "Tp" -> Tp
          [] OTHER -> 0]

\* Outputs with R and T in {0, 1}, R + T <= 1, and one without the key Rs.
SolverOutputs ==
    {SolverOutput(s[1], s[2], q[1], q[2]) : s, q \in {<<0, 0>>, <<1, 0>>, <<0, 1>>}}
    \cup {[k \in (stackrt_dims \cup stackrt_non_dims \cup stackrt_variables) \ {"Rs"} |-> 0]}

StackrtKwargs == {<<>>, <<"xarray_dataset">>, <<"xarray_dataarray">>}

StackrtFormatters == {StackrtInit(v, b) : v \in {"None", "xarray_dataset", "netcdf"}, b \in BOOLEAN}

\* Simulation(formatter=format_stackrt(output_format=v, add_absorption=b)).
InitStackrt ==
    /\ InitStructure
    /\ own = [o \in Owners |-> SpectrumInit(Nothing)]
    /\ \E f \in StackrtFormatters : sim = SimulationInit("None", "None", Arr(<<0>>), f)

\* format called on solver outputs, between reassignments of the formatter.
NextStackrt ==
    \/ \E d \in SolverOutputs, kw \in StackrtKwargs : StackrtFormatCall(d, kw)
    \/ \E f \in StackrtFormatters : SetFormatter(f)

SpecStackrt == InitStackrt /\ [][NextStackrt]_vars

\* C30: with add_absorption true, the Dataset format_stackrt returns for
\* output_format "xarray_dataset" holds, next to the raw variables, As equal
\* to 1 - Rs - Ts and Ap equal to 1 - Rp - Tp, whenever Rs, Ts, Rp and Tp
\* are keys of the solver output.
C30_AbsorptionAdded ==
    LET d == last.arg.dataset
        selector == IF last.arg.kwargs = <<>> THEN sim.formatter.output_format
                    ELSE last.arg.kwargs[1]
    IN  (/\ last.op = "stackrt_format"
         /\ selector = "xarray_dataset"
         /\ sim.formatter.add_absorption
         /\ {"Rs", "Ts", "Rp", "Tp"} \subseteq DOMAIN d) =>
            /\ ~last.raised
            /\ DOMAIN last.ret.data_vars = stackrt_variables \cup {"As", "Ap"}
            /\ \A var \in stackrt_variables : last.ret.data_vars[var] = d[var]
            /\ last.ret.data_vars["As"] = 1 - d["Rs"] - d["Ts"]
            /\ last.ret.data_vars["Ap"] = 1 - d["Rp"] - d["Tp"]

====
